---- MODULE Spec2Model ----
(***************************************************************************)
(* The interview session of regai-frontend: the Interview page             *)
(* (src/pages/Interview.tsx) composed with its three children, the         *)
(* StakeholderSidebar, the ChatInterface and the RequirementsPanel.        *)
(*                                                                         *)
(* Every event handler is synchronous from its first statement to its last *)
(* (handleSendMessage is declared async but contains no await), and React  *)
(* applies the state updates queued by one handler together, in the order  *)
(* they were queued, before the next event is delivered.  One action of    *)
(* the model is therefore one user event together with the whole handler   *)
(* it runs.  A handler is an operator from the session record before the   *)
(* event to the session record after it, so that a handler can also be     *)
(* evaluated on arguments no control of the page produces.                 *)
(*                                                                         *)
(* Array.prototype.filter is SelectSeq; Array.prototype.find is the head   *)
(* of SelectSeq, or Null.                                                  *)
(*                                                                         *)
(* Text is a sequence of one-character strings; a formatted string is the  *)
(* sequence of its fragments.  Message timestamps are not modelled.  The   *)
(* collapse toggle of the requirements panel only hides controls and is    *)
(* not modelled.                                                           *)
(***************************************************************************)
EXTENDS Integers, Sequences, FiniteSets, TLC

(***************************************************************************)
(* Scenario catalog (src/data/scenarios.ts)                                *)
(***************************************************************************)
defaultScenarios ==
  <<
    [id |-> "1", title |-> "Book Discussion Platform",
     shortDescription |-> "Social reading and literary community",
     fullDescription |-> "A platform where book enthusiasts can discover new reads, join discussion groups, share reviews, and connect with fellow readers. Features include virtual book clubs, reading challenges, and author Q&A sessions.",
     category |-> "Social",
     stakeholders |->
       <<[id |-> "s1", name |-> "Emily Chen", role |-> "Book Club Organizer",
          description |-> "Manages multiple book clubs and coordinates reading schedules"],
         [id |-> "s2", name |-> "Marcus Thompson", role |-> "Casual Reader",
          description |-> "Enjoys discovering new books and reading reviews before purchasing"],
         [id |-> "s3", name |-> "Sarah Williams", role |-> "Published Author",
          description |-> "Wants to engage with readers and promote upcoming releases"]>>],
    [id |-> "2", title |-> "Food Delivery Service",
     shortDescription |-> "Restaurant-to-door meal delivery",
     fullDescription |-> "A comprehensive food delivery platform connecting local restaurants with hungry customers. Includes real-time order tracking, driver coordination, and restaurant management tools.",
     category |-> "Logistics",
     stakeholders |->
       <<[id |-> "s4", name |-> "Tony Rodriguez", role |-> "Restaurant Owner",
          description |-> "Runs a family restaurant and wants to expand customer reach"],
         [id |-> "s5", name |-> "Lisa Park", role |-> "Delivery Driver",
          description |-> "Part-time driver looking for flexible work with good earnings"],
         [id |-> "s6", name |-> "James Wilson", role |-> "Hungry Customer",
          description |-> "Busy professional who orders food regularly for convenience"],
         [id |-> "s7", name |-> "Maria Santos", role |-> "Operations Manager",
          description |-> "Oversees platform performance and driver assignments"]>>],
    [id |-> "3", title |-> "Fitness Tracking App",
     shortDescription |-> "Personal health and workout companion",
     fullDescription |-> "A mobile-first fitness application that helps users track workouts, monitor nutrition, set goals, and connect with personal trainers. Includes wearable device integration and progress analytics.",
     category |-> "Health",
     stakeholders |->
       <<[id |-> "s8", name |-> "Alex Rivera", role |-> "Fitness Enthusiast",
          description |-> "Dedicated gym-goer who tracks every workout meticulously"],
         [id |-> "s9", name |-> "Diana Moore", role |-> "Personal Trainer",
          description |-> "Certified trainer managing multiple clients remotely"],
         [id |-> "s10", name |-> "Ryan Kim", role |-> "Casual User",
          description |-> "Wants to get more active but needs motivation and guidance"]>>],
    [id |-> "4", title |-> "Event Ticketing Platform",
     shortDescription |-> "Concert and event ticket marketplace",
     fullDescription |-> "An end-to-end ticketing solution for concerts, sports events, and festivals. Features include venue management, dynamic pricing, fraud prevention, and mobile ticket delivery.",
     category |-> "Entertainment",
     stakeholders |->
       <<[id |-> "s11", name |-> "David Brown", role |-> "Event Organizer",
          description |-> "Produces concerts and festivals across multiple venues"],
         [id |-> "s12", name |-> "Sophia Lee", role |-> "Concert Goer",
          description |-> "Attends 10+ shows yearly and values easy ticket purchases"],
         [id |-> "s13", name |-> "Mike Chen", role |-> "Venue Manager",
          description |-> "Manages a 5000-seat arena and coordinates with promoters"],
         [id |-> "s14", name |-> "Janet Adams", role |-> "Security Lead",
          description |-> "Ensures event safety and manages entry checkpoints"]>>],
    [id |-> "5", title |-> "Online Learning Platform",
     shortDescription |-> "Interactive education marketplace",
     fullDescription |-> "A comprehensive e-learning platform where instructors can create courses and students can learn at their own pace. Includes video hosting, quizzes, certificates, and discussion forums.",
     category |-> "Education",
     stakeholders |->
       <<[id |-> "s15", name |-> "Jennifer Taylor", role |-> "Course Instructor",
          description |-> "University professor creating supplementary online content"],
         [id |-> "s16", name |-> "Kevin Zhang", role |-> "Student",
          description |-> "Career switcher learning new skills for job advancement"],
         [id |-> "s17", name |-> "Amanda Foster", role |-> "Content Reviewer",
          description |-> "Ensures course quality and compliance with standards"]>>],
    [id |-> "6", title |-> "Pet Care Marketplace",
     shortDescription |-> "Pet services and supplies hub",
     fullDescription |-> "A one-stop platform for pet owners to find veterinarians, groomers, pet sitters, and purchase supplies. Includes appointment booking, health records, and community features.",
     category |-> "Services",
     stakeholders |->
       <<[id |-> "s18", name |-> "Robert Hayes", role |-> "Veterinarian",
          description |-> "Runs a busy veterinary clinic and wants to streamline bookings"],
         [id |-> "s19", name |-> "Linda Martinez", role |-> "Pet Owner",
          description |-> "Has two dogs and a cat, needs reliable care options"],
         [id |-> "s20", name |-> "Tom Baker", role |-> "Pet Sitter",
          description |-> "Professional pet sitter offering in-home care services"]>>]
  >>

seniorEngineer ==
  [id |-> "senior-engineer", name |-> "Alex Morgan",
   role |-> "Senior Software Engineer",
   description |-> "A seasoned software engineer with 15+ years of experience. Reviews requirements for completeness, clarity, and technical feasibility."]

\* The value of `stakeholder` when no persona resolves (null in the source).
Null == [id |-> "<null>", name |-> "", role |-> "", description |-> ""]

\* The value of `selectedScenario` before a card was clicked (null in the
\* source).
NullScenario ==
  [id |-> "<null>", title |-> "", shortDescription |-> "",
   fullDescription |-> "", category |-> "", stakeholders |-> <<>>]

\* The two tags of Requirement.type.
RequirementTypes == {"functional", "non-functional"}

(***************************************************************************)
(* Bounds and input sets                                                   *)
(***************************************************************************)
\* Number of identifiers crypto.randomUUID() hands out in one session.
MaxUuids == 4

\* The texts typed into the chat box and the requirement box: the empty
\* text, a whitespace-only text, a plain text and a text with whitespace
\* around it.
Whitespace == {" "}
Texts == {<<>>, <<" ">>, <<"a">>, <<" ", "a", " ">>}

\* The scenarios an interview is started with.
SessionScenarios == {defaultScenarios[1]}

(***************************************************************************)
(* String helpers                                                          *)
(***************************************************************************)
RECURSIVE TrimStart(_)
TrimStart(t) ==
  IF t # <<>> /\ Head(t) \in Whitespace THEN TrimStart(Tail(t)) ELSE t

RECURSIVE TrimEnd(_)
TrimEnd(t) ==
  IF t # <<>> /\ t[Len(t)] \in Whitespace
  THEN TrimEnd(SubSeq(t, 1, Len(t) - 1)) ELSE t

\* String.prototype.trim
Trim(t) == TrimEnd(TrimStart(t))

\* String.prototype.toUpperCase on the strings a requirement type can hold.
ToUpperCase(s) ==
  CASE s = "functional" -> "FUNCTIONAL"
    [] s = "non-functional" -> "NON-FUNCTIONAL"
    [] s = "performance" -> "PERFORMANCE"
    [] OTHER -> s

\* String.prototype.trim on a string value.
RECURSIVE trimStart(_)
trimStart(str) ==
  IF str # "" /\ Head(str) \in Whitespace THEN trimStart(Tail(str)) ELSE str

RECURSIVE trimEnd(_)
trimEnd(str) ==
  IF str # "" /\ SubSeq(str, Len(str), Len(str)) \in Whitespace
  THEN trimEnd(SubSeq(str, 1, Len(str) - 1)) ELSE str

trim(str) == trimEnd(trimStart(str))

UpperCaseLetters == "ABCDEFGHIJKLMNOPQRSTUVWXYZ"
LowerCaseLetters == "abcdefghijklmnopqrstuvwxyz"

\* The lower-case letter of each upper-case letter.
LowerOf ==
  [c \in {SubSeq(UpperCaseLetters, i, i) : i \in 1..Len(UpperCaseLetters)} |->
     LET i == CHOOSE k \in 1..Len(UpperCaseLetters) :
                SubSeq(UpperCaseLetters, k, k) = c
     IN SubSeq(LowerCaseLetters, i, i)]

\* String.prototype.toLowerCase (the catalog and the queries are ASCII)
RECURSIVE toLowerCase(_)
toLowerCase(str) ==
  IF str = "" THEN ""
  ELSE (IF Head(str) \in DOMAIN LowerOf THEN LowerOf[Head(str)] ELSE Head(str))
         \o toLowerCase(Tail(str))

\* String.prototype.includes
includes(str, q) ==
  \E i \in 1..(Len(str) - Len(q) + 1) : SubSeq(str, i, i + Len(q) - 1) = q

(***************************************************************************)
(* State                                                                   *)
(***************************************************************************)
VARIABLES
  scenario,             \* location.state.scenario
  activeStakeholderId,  \* Interview: useState<string>("")
  chatHistories,        \* Interview: Record<string, Message[]>
  requirements,         \* Interview: Requirement[]
  isLoading,            \* Interview: the awaiting-reply flag
  showDeleteDialog,     \* Interview: the confirmation dialog is open
  toast,                \* the notification shown last (sonner)
  uuid,                 \* how many identifiers crypto.randomUUID() has handed out
  input,                \* ChatInterface: the chat box
  type,                 \* RequirementsPanel: the selected requirement type
  description,          \* RequirementsPanel: the requirement box
  searchQuery,          \* Index: what the user typed in the search box
  selectedScenario,     \* Index: the scenario the popup previews
  popupOpen,            \* Index: the scenario preview popup is open
  manageOpen,           \* Index: the "Manage Scenarios" dialog is open
  showImportDialog,     \* ManageScenariosDialog: the import dialog is open
  importJson,           \* ImportScenarioDialog: the JSON text box
  isSubmitting,         \* ImportScenarioDialog: an import is in progress
  imported,             \* the scenarios handed to onImportScenario so far
  customScenarios,      \* Index: useState<Scenario[]>([]), the user's scenarios
  showCreateDialog,     \* ManageScenariosDialog: the create dialog is open
  memoryState,          \* use-toast: the global store, { toasts }
  count,                \* use-toast: the counter behind genId()
  toastTimeouts,        \* use-toast: the toasts with a removal timer pending
  location,             \* the route the router shows
  localStorage,         \* the browser's store: regai_logged_in, regai_email
  isLoggedIn,           \* Index: the flag as it was read when the page mounted
  isLogin,              \* Auth: login mode (true) or sign-up mode (false)
  email,                \* Auth: the email box
  authLoading,          \* Auth.loading: a submit waits for its simulated delay
  timers                \* the setTimeout callbacks of Auth that are pending

\* The state of the Index page.
indexVars == <<searchQuery, selectedScenario, popupOpen>>

\* The state of the scenario management dialogs.
importVars ==
  <<manageOpen, showImportDialog, importJson, isSubmitting, imported,
    customScenarios, showCreateDialog>>

\* The state of the application shell around the pages.
appVars ==
  <<location, localStorage, isLoggedIn, isLogin, email, authLoading, timers>>

shellVars == <<memoryState, count, toastTimeouts, appVars>>

vars ==
  <<scenario, activeStakeholderId, chatHistories, requirements, isLoading,
    showDeleteDialog, toast, uuid, input, type, description, indexVars,
    importVars, shellVars>>

Page ==
  [scenario |-> scenario, activeStakeholderId |-> activeStakeholderId,
   chatHistories |-> chatHistories, requirements |-> requirements,
   isLoading |-> isLoading, showDeleteDialog |-> showDeleteDialog,
   toast |-> toast, uuid |-> uuid, input |-> input, type |-> type,
   description |-> description]

\* The interview page shows the state s.
RenderPage(s) ==
  /\ scenario' = s.scenario
  /\ activeStakeholderId' = s.activeStakeholderId
  /\ chatHistories' = s.chatHistories
  /\ requirements' = s.requirements
  /\ isLoading' = s.isLoading
  /\ showDeleteDialog' = s.showDeleteDialog
  /\ toast' = s.toast
  /\ uuid' = s.uuid
  /\ input' = s.input
  /\ type' = s.type
  /\ description' = s.description

\* The next render shows the state the handler left.
Render(s) ==
  /\ RenderPage(s)
  /\ UNCHANGED <<indexVars, importVars, shellVars>>

NoToast == [kind |-> "none", message |-> ""]
ToastSuccess(message) == [kind |-> "success", message |-> message]
ToastError(message) == [kind |-> "error", message |-> message]
ToastInfo(message) == [kind |-> "info", message |-> message]

\* useState<Record<string, Message[]>>({})
EmptyHistories == [k \in {} |-> <<>>]

Init ==
  /\ scenario \in SessionScenarios
  /\ activeStakeholderId = ""
  /\ chatHistories = EmptyHistories
  /\ requirements = <<>>
  /\ isLoading = FALSE
  /\ showDeleteDialog = FALSE
  /\ toast = NoToast
  /\ uuid = 0
  /\ input = <<>>
  /\ type = "functional"
  /\ description = <<>>
  /\ searchQuery = ""
  /\ selectedScenario = NullScenario
  /\ popupOpen = FALSE
  /\ manageOpen = FALSE
  /\ showImportDialog = FALSE
  /\ importJson = <<>>
  /\ isSubmitting = FALSE
  /\ imported = <<>>
  /\ customScenarios = <<>>
  /\ showCreateDialog = FALSE
  /\ memoryState = [toasts |-> <<>>]
  /\ count = 0
  /\ toastTimeouts = {}
  /\ location = "/interview"
  /\ localStorage = [regai_logged_in |-> "true", regai_email |-> "you@example.com"]
  /\ isLoggedIn = FALSE
  /\ isLogin = TRUE
  /\ email = ""
  /\ authLoading = FALSE
  /\ timers = {}

(***************************************************************************)
(* Interview                                                               *)
(***************************************************************************)
\* crypto.randomUUID(): the identifier handed out after n earlier ones.
\* Two calls never return the same identifier.
randomUUID(n) == n + 1

\* chatHistories[id] || []
Bucket(histories, id) ==
  IF id \in DOMAIN histories THEN histories[id] ELSE <<>>

\* { ...prev, [id]: [...(prev[id] || []), message] }
\* AppendToBucket without the spread of the bucket's earlier messages.
AppendToBucket_DropsEarlier(prev, id, message) ==
  [k \in DOMAIN prev \cup {id} |->
     IF k = id THEN <<message>> ELSE prev[k]]

AppendToBucket(prev, id, message) ==
  [k \in DOMAIN prev \cup {id} |->
     IF k = id THEN Append(Bucket(prev, id), message) ELSE prev[k]]

allStakeholders(s) == s.scenario.stakeholders

activeStakeholder(s) ==
  IF s.activeStakeholderId = seniorEngineer.id
  THEN seniorEngineer
  ELSE LET matches(p) == p.id = s.activeStakeholderId
           found == SelectSeq(allStakeholders(s), matches)
       IN IF found = <<>> THEN Null ELSE Head(found)

currentMessages(s) == Bucket(s.chatHistories, s.activeStakeholderId)

isEngineerChat(s) == s.activeStakeholderId = seniorEngineer.id

\* makeAssistantReply with every requirement counted as functional.
makeAssistantReply_CountsAll(params) ==
  IF params.isEngineer
  THEN IF Len(params.requirements) = 0
       THEN <<"I am the senior engineer. Add a few requirements first, then hit \"Submit for Review\" and I will give feedback.">>
       ELSE LET isNfr(r) == r.type = "non-functional"
                fnCount == Len(params.requirements)
                nfrCount == Len(SelectSeq(params.requirements, isNfr))
            IN <<"Quick summary for \"", params.scenarioTitle, "\": I see ",
                 ToString(fnCount), " functional and ", ToString(nfrCount),
                 " non-functional requirements. \n    Here is how you can improve ...">>
  ELSE <<"As ", params.stakeholder.name, " (", params.stakeholder.role,
         "), here is what I would care about for \"", params.scenarioTitle,
         "\": \nI would want ...">>

makeAssistantReply(params) ==
  IF params.isEngineer
  THEN IF Len(params.requirements) = 0
       THEN <<"I am the senior engineer. Add a few requirements first, then hit \"Submit for Review\" and I will give feedback.">>
       ELSE LET isFn(r) == r.type = "functional"
                isNfr(r) == r.type = "non-functional"
                fnCount == Len(SelectSeq(params.requirements, isFn))
                nfrCount == Len(SelectSeq(params.requirements, isNfr))
            IN <<"Quick summary for \"", params.scenarioTitle, "\": I see ",
                 ToString(fnCount), " functional and ", ToString(nfrCount),
                 " non-functional requirements. \n    Here is how you can improve ...">>
  ELSE <<"As ", params.stakeholder.name, " (", params.stakeholder.role,
         "), here is what I would care about for \"", params.scenarioTitle,
         "\": \nI would want ...">>

\* appendUserMessage with an identifier that the next message gets again.
appendUserMessage_ReusedId(s, content) ==
  LET userMessage ==
        [id |-> randomUUID(s.uuid), role |-> "user", content |-> content]
  IN [s EXCEPT
        !.chatHistories = AppendToBucket(@, s.activeStakeholderId, userMessage)]

\* The first half of handleSendMessage: the user's message is built and
\* appended to the bucket of the active stakeholder.
appendUserMessage(s, content) ==
  LET userMessage ==
        [id |-> randomUUID(s.uuid), role |-> "user", content |-> content]
  IN [s EXCEPT
        !.chatHistories = AppendToBucket(@, s.activeStakeholderId, userMessage),
        !.uuid = @ + 1]

\* requestReply with the requirement list of the page's first render, as a
\* callback that is never rebuilt would see it.
requestReply_FirstRender(s, s0) ==
  LET reply ==
        makeAssistantReply(
          [stakeholder |-> activeStakeholder(s0),
           scenarioTitle |-> s0.scenario.title,
           scenarioDescription |-> s0.scenario.fullDescription,
           isEngineer |-> isEngineerChat(s0),
           requirements |-> <<>>])
      assistantMessage ==
        [id |-> randomUUID(s.uuid), role |-> "assistant", content |-> reply]
  IN [s EXCEPT
        !.chatHistories =
           AppendToBucket(@, s0.activeStakeholderId, assistantMessage),
        !.uuid = @ + 1]

\* The second half: the reply is generated from the values the handler
\* closed over (s0, the state the handler started in) and appended to the
\* same bucket.  makeAssistantReply cannot throw on these arguments, so the
\* catch branch is not taken.
requestReply(s, s0) ==
  LET reply ==
        makeAssistantReply(
          [stakeholder |-> activeStakeholder(s0),
           scenarioTitle |-> s0.scenario.title,
           scenarioDescription |-> s0.scenario.fullDescription,
           isEngineer |-> isEngineerChat(s0),
           requirements |-> s0.requirements])
      assistantMessage ==
        [id |-> randomUUID(s.uuid), role |-> "assistant", content |-> reply]
  IN [s EXCEPT
        !.chatHistories =
           AppendToBucket(@, s0.activeStakeholderId, assistantMessage),
        !.uuid = @ + 1]

\* handleSendMessage without the early return for an absent stakeholder.
handleSendMessage_NoNullGuard(s, content) ==
  LET sent == appendUserMessage(s, content)
      loading == [sent EXCEPT !.isLoading = TRUE]
      replied == requestReply(loading, s)
  IN [replied EXCEPT !.isLoading = FALSE]

handleSendMessage(s, content) ==
  IF activeStakeholder(s) = Null THEN s
  ELSE LET sent == appendUserMessage(s, content)
           loading == [sent EXCEPT !.isLoading = TRUE]
           replied == requestReply(loading, s)
       IN [replied EXCEPT !.isLoading = FALSE]

\* The catch branch of handleSendMessage.
replyFailed(s) ==
  [s EXCEPT !.toast = ToastError("Failed to generate response.")]

\* handleSendMessageThrown without the finally branch.
handleSendMessageThrown_NoFinally(s, content) ==
  IF activeStakeholder(s) = Null THEN s
  ELSE LET sent == appendUserMessage(s, content)
           loading == [sent EXCEPT !.isLoading = TRUE]
       IN replyFailed(loading)

\* The run of handleSendMessage in which the try block throws: every
\* statement of the block precedes or is the setter that appends the reply,
\* so the block leaves no update, and catch and finally follow.
handleSendMessageThrown(s, content) ==
  IF activeStakeholder(s) = Null THEN s
  ELSE LET sent == appendUserMessage(s, content)
           loading == [sent EXCEPT !.isLoading = TRUE]
           caught == replyFailed(loading)
       IN [caught EXCEPT !.isLoading = FALSE]

\* handleAddRequirement with the position in the list as identifier.
handleAddRequirement_IndexAsId(s, requirement) ==
  LET newId == Len(s.requirements) + 1 IN
  [s EXCEPT
     !.requirements =
        Append(@, [id |-> newId, type |-> requirement.type,
                   description |-> requirement.description]),
     !.uuid = @ + 1,
     !.toast = ToastSuccess("Requirement added.")]

handleAddRequirement(s, requirement) ==
  LET newId == randomUUID(s.uuid) IN
  [s EXCEPT
     !.requirements =
        Append(@, [id |-> newId, type |-> requirement.type,
                   description |-> requirement.description]),
     !.uuid = @ + 1,
     !.toast = ToastSuccess("Requirement added.")]

\* handleDeleteRequirement with the filter's test inverted.
handleDeleteRequirement_KeepsMatch(s, id) ==
  LET kept(r) == r.id = id IN
  [s EXCEPT
     !.requirements = SelectSeq(@, kept),
     !.toast = ToastSuccess("Requirement removed.")]

handleDeleteRequirement(s, id) ==
  LET kept(r) == r.id # id IN
  [s EXCEPT
     !.requirements = SelectSeq(@, kept),
     !.toast = ToastSuccess("Requirement removed.")]

\* requirements.map(r => `[${r.type.toUpperCase()}] ${r.description}`)
RECURSIVE reqLines(_)
reqLines(reqs) ==
  IF reqs = <<>> THEN <<>>
  ELSE <<(<<"[", ToUpperCase(Head(reqs).type), "] ">>
           \o Head(reqs).description)>>
       \o reqLines(Tail(reqs))

\* Array.prototype.join
RECURSIVE Join(_, _)
Join(lines, sep) ==
  IF lines = <<>> THEN <<>>
  ELSE IF Len(lines) = 1 THEN Head(lines)
  ELSE Head(lines) \o <<sep>> \o Join(Tail(lines), sep)

reviewMessage(reqs) ==
  <<"Please review the following requirements I've gathered:\n\n">>
    \o Join(reqLines(reqs), "\n")

\* handleSubmitForReview without the test for an empty list.
handleSubmitForReview_NoEmptyTest(s) ==
  handleSendMessage(s, reviewMessage(s.requirements))

handleSubmitForReview(s) ==
  IF Len(s.requirements) = 0
  THEN [s EXCEPT !.toast = ToastError("Please add some requirements first")]
  ELSE handleSendMessage(s, reviewMessage(s.requirements))

\* handleDeleteHistory without setRequirements([]).
handleDeleteHistory_KeepsRequirements(s) ==
  [s EXCEPT
     !.chatHistories = EmptyHistories,
     !.toast = ToastSuccess("Chat history and requirements cleared."),
     !.showDeleteDialog = FALSE]

\* handleDeleteHistory without setShowDeleteDialog(false).
handleDeleteHistory_LeavesDialogOpen(s) ==
  [s EXCEPT
     !.chatHistories = EmptyHistories,
     !.requirements = <<>>,
     !.toast = ToastSuccess("Chat history and requirements cleared.")]

handleDeleteHistory(s) ==
  [s EXCEPT
     !.chatHistories = EmptyHistories,
     !.requirements = <<>>,
     !.toast = ToastSuccess("Chat history and requirements cleared."),
     !.showDeleteDialog = FALSE]

setShowDeleteDialog(s, open) == [s EXCEPT !.showDeleteDialog = open]

\* setActiveStakeholderId that starts the selected chat anew.
setActiveStakeholderId_StartsAnew(s, id) ==
  [s EXCEPT !.activeStakeholderId = id,
            !.chatHistories = [k \in DOMAIN @ \ {id} |-> @[k]]]

setActiveStakeholderId(s, id) == [s EXCEPT !.activeStakeholderId = id]

(***************************************************************************)
(* ChatInterface                                                           *)
(***************************************************************************)
\* onChange of the chat box
setInput(s, text) == [s EXCEPT !.input = text]

\* handleSubmit without the test that the trimmed text is non-empty.
handleSubmit_NoEmptyTest(s) ==
  IF ~s.isLoading
  THEN [handleSendMessage(s, Trim(s.input)) EXCEPT !.input = <<>>]
  ELSE s

\* handleSubmit without the test of the awaiting-reply flag.
handleSubmit_IgnoresLoading(s) ==
  IF Trim(s.input) # <<>>
  THEN [handleSendMessage(s, Trim(s.input)) EXCEPT !.input = <<>>]
  ELSE s

\* disabled of the chat box
inputDisabled(s) == s.isLoading

\* disabled of the send button
sendButtonDisabled(s) == Trim(s.input) = <<>> \/ s.isLoading

\* The form's submit handler; onSendMessage is Interview's handleSendMessage.
handleSubmit(s) ==
  IF Trim(s.input) # <<>> /\ ~s.isLoading
  THEN [handleSendMessage(s, Trim(s.input)) EXCEPT !.input = <<>>]
  ELSE s

(***************************************************************************)
(* RequirementsPanel                                                       *)
(***************************************************************************)
\* The items the type Select offers.
SelectItems == {"functional", "non-functional"}

setType(s, v) == [s EXCEPT !.type = v]

setDescription(s, text) == [s EXCEPT !.description = text]

\* onAddRequirement is Interview's handleAddRequirement.
handleAdd(s) ==
  IF Trim(s.description) # <<>>
  THEN [handleAddRequirement(
          s, [type |-> s.type, description |-> Trim(s.description)])
        EXCEPT !.description = <<>>]
  ELSE s

functionalReqs(s) ==
  LET isFn(r) == r.type = "functional" IN SelectSeq(s.requirements, isFn)

nonFunctionalReqs(s) ==
  LET isNfr(r) == r.type = "non-functional" IN SelectSeq(s.requirements, isNfr)

\* reqs.forEach((req, i) => content += `${i + 1}. ${req.description}\n`)
entryLines(reqs) ==
  [i \in 1..Len(reqs) |-> <<ToString(i), ". ">> \o reqs[i].description]

\* The lines of requirements.txt, each ended by a line break in the file.
exportContent(s) ==
  <<(<<"REQUIREMENTS LIST">>), (<<"=================">>), <<>>>>
    \o (IF Len(functionalReqs(s)) > 0
        THEN <<(<<"FUNCTIONAL REQUIREMENTS">>),
               (<<"-----------------------">>)>>
               \o entryLines(functionalReqs(s)) \o <<(<<>>)>>
        ELSE <<>>)
    \o (IF Len(nonFunctionalReqs(s)) > 0
        THEN <<(<<"NON-FUNCTIONAL REQUIREMENTS">>),
               (<<"---------------------------">>)>>
               \o entryLines(nonFunctionalReqs(s))
        ELSE <<>>)

\* handleExportRequirements with every requirement listed in the first
\* group.
handleExportRequirements_OneGroup(s) ==
  IF Len(s.requirements) = 0
  THEN [page |-> [s EXCEPT !.toast = ToastError("No requirements to export")],
        downloaded |-> FALSE, content |-> <<>>]
  ELSE [page |-> [s EXCEPT !.toast = ToastSuccess("Requirements exported!")],
        downloaded |-> TRUE,
        content |->
          <<(<<"REQUIREMENTS LIST">>), (<<"=================">>), <<>>,
            (<<"FUNCTIONAL REQUIREMENTS">>), (<<"-----------------------">>)>>
            \o entryLines(s.requirements) \o <<(<<>>)>>]

\* The page the handler leaves, and the file it makes the browser download.
handleExportRequirements(s) ==
  IF Len(s.requirements) = 0
  THEN [page |-> [s EXCEPT !.toast = ToastError("No requirements to export")],
        downloaded |-> FALSE, content |-> <<>>]
  ELSE [page |-> [s EXCEPT !.toast = ToastSuccess("Requirements exported!")],
        downloaded |-> TRUE, content |-> exportContent(s)]

\* The "Submit for Review" button enabled while a reply is awaited.
submitButtonEnabled_IgnoresLoading(s) ==
  /\ isEngineerChat(s)
  /\ ~(Len(s.requirements) = 0)

\* The "Submit for Review" button rendered whoever is active.
submitButtonEnabled_AnyChat(s) ==
  /\ activeStakeholder(s) # Null
  /\ ~(Len(s.requirements) = 0 \/ s.isLoading)

\* The "Submit for Review" button is rendered and enabled.
submitButtonEnabled(s) ==
  /\ isEngineerChat(s)
  /\ ~(Len(s.requirements) = 0 \/ s.isLoading)

(***************************************************************************)
(* User events                                                             *)
(***************************************************************************)
\* A handler that would need more identifiers than the session's bound
\* hands out is not run.
WithinBounds(s) == s.uuid <= MaxUuids

\* The identifiers behind the sidebar's buttons: one button for each
\* stakeholder of the scenario and one for the Senior Engineer.
SidebarIds(s) ==
  {allStakeholders(s)[i].id : i \in 1..Len(allStakeholders(s))}
    \cup {seniorEngineer.id}

\* A click on a button of the sidebar (a click on the active one changes
\* nothing).
SelectStakeholder(id) ==
  /\ id \in SidebarIds(Page)
  /\ id # activeStakeholderId
  /\ Render(setActiveStakeholderId(Page, id))

\* The user replaces the content of the chat box (unless it is disabled)
\* and submits the form.  The form exists only while a stakeholder resolves.
ChatSubmit(text) ==
  /\ activeStakeholder(Page) # Null
  /\ LET typed == IF Page.isLoading THEN Page ELSE setInput(Page, text)
         after == handleSubmit(typed)
     IN WithinBounds(after) /\ Render(after)

SelectType(v) ==
  /\ v \in SelectItems
  /\ v # type
  /\ Render(setType(Page, v))

\* The user replaces the content of the requirement box and presses Enter.
AddRequirement(text) ==
  LET after == handleAdd(setDescription(Page, text))
  IN WithinBounds(after) /\ Render(after)

\* The requirements the panel lists, each with its bin: the functional
\* group, then the non-functional group.
listedReqs(s) == functionalReqs(s) \o nonFunctionalReqs(s)

\* A click on the bin of a listed requirement.
DeleteRequirement(i) ==
  /\ i \in 1..Len(listedReqs(Page))
  /\ Render(handleDeleteRequirement(Page, listedReqs(Page)[i].id))

SubmitForReview ==
  /\ submitButtonEnabled(Page)
  /\ LET after == handleSubmitForReview(Page)
     IN WithinBounds(after) /\ Render(after)

\* The "Delete History" menu item; the open dialog covers the menu.
OpenDeleteDialog ==
  /\ ~showDeleteDialog
  /\ Render(setShowDeleteDialog(Page, TRUE))

\* Cancel, Escape: onOpenChange(false)
CancelDelete ==
  /\ showDeleteDialog
  /\ Render(setShowDeleteDialog(Page, FALSE))

\* "Delete All"
ConfirmDelete ==
  /\ showDeleteDialog
  /\ Render(handleDeleteHistory(Page))

\* Every stakeholder identifier of the catalog, and the reviewer's.
PersonaIds ==
  UNION {{defaultScenarios[i].stakeholders[j].id :
            j \in 1..Len(defaultScenarios[i].stakeholders)} :
           i \in 1..Len(defaultScenarios)}
    \cup {seniorEngineer.id}

Next ==
  \/ \E id \in PersonaIds : SelectStakeholder(id)
  \/ \E text \in Texts : ChatSubmit(text)
  \/ \E v \in SelectItems : SelectType(v)
  \/ \E text \in Texts : AddRequirement(text)
  \/ \E i \in 1..MaxUuids : DeleteRequirement(i)
  \/ SubmitForReview
  \/ OpenDeleteDialog
  \/ CancelDelete
  \/ ConfirmDelete

Spec == Init /\ [][Next]_vars

\* handleSubmit on a page whose reply generation throws.
handleSubmitThrown(s) ==
  IF Trim(s.input) # <<>> /\ ~s.isLoading
  THEN [handleSendMessageThrown(s, Trim(s.input)) EXCEPT !.input = <<>>]
  ELSE s

\* A chat submit of a text that is sent, with the reply generation failing.
ChatSubmitThrown(text) ==
  /\ activeStakeholder(Page) # Null
  /\ Trim(text) # <<>>
  /\ LET typed == IF Page.isLoading THEN Page ELSE setInput(Page, text)
         after == handleSubmitThrown(typed)
     IN WithinBounds(after) /\ Render(after)

\* The chat side of the page with a reply generation that may fail (the
\* requirements panel takes no part in a failing send: the reply that would
\* have read the requirements is never built).
NextThrown ==
  \/ \E id \in PersonaIds : SelectStakeholder(id)
  \/ \E text \in Texts : ChatSubmit(text)
  \/ \E text \in Texts : ChatSubmitThrown(text)
  \/ OpenDeleteDialog
  \/ CancelDelete
  \/ ConfirmDelete

SpecThrown == Init /\ [][NextThrown]_vars

\* The texts typed into the requirement box of the panel on its own.
PanelTexts == {<<>>, <<"a">>, <<"b">>, <<" ", "b", " ">>}

AddRequirementText(text) ==
  LET after == handleAdd(setDescription(Page, text))
  IN WithinBounds(after) /\ Render(after)

\* "Export as TXT" of the panel's menu.
ExportRequirements ==
  LET out == handleExportRequirements(Page)
  IN WithinBounds(out.page) /\ Render(out.page)

\* The requirements panel on its own.
NextPanel ==
  \/ \E v \in SelectItems : SelectType(v)
  \/ \E text \in PanelTexts : AddRequirementText(text)
  \/ \E i \in 1..MaxUuids : DeleteRequirement(i)
  \/ ExportRequirements

SpecPanel == Init /\ [][NextPanel]_vars

(***************************************************************************)
(* Index                                                                   *)
(***************************************************************************)
\* The texts typed into the search box.
Queries ==
  {"", "  ", "social", "SOCIAL", " hEaLtH ", "Services", "Logistics", "app",
   "platform", "Book", "a", "zzz"}

allScenarios == defaultScenarios \o customScenarios

\* filteredScenarios with the query compared as it was typed.
filteredScenarios_CaseSensitive(query) ==
  LET q == trim(query)
      matches(s) ==
        \/ includes(toLowerCase(s.title), q)
        \/ includes(toLowerCase(s.shortDescription), q)
        \/ includes(toLowerCase(s.category), q)
  IN IF q = "" THEN allScenarios ELSE SelectSeq(allScenarios, matches)

filteredScenarios(query) ==
  LET q == toLowerCase(trim(query))
      matches(s) ==
        \/ includes(toLowerCase(s.title), q)
        \/ includes(toLowerCase(s.shortDescription), q)
        \/ includes(toLowerCase(s.category), q)
  IN IF q = "" THEN allScenarios ELSE SelectSeq(allScenarios, matches)

hasResults(query) == Len(filteredScenarios(query)) > 0

interviewVars ==
  <<scenario, activeStakeholderId, chatHistories, requirements, isLoading,
    showDeleteDialog, toast, uuid, input, type, description>>

\* onChange of the search box (the open popup is modal)
SetSearchQuery(q) ==
  /\ ~popupOpen
  /\ q # searchQuery
  /\ searchQuery' = q
  /\ UNCHANGED <<selectedScenario, popupOpen, interviewVars, importVars, shellVars>>

\* The clear button, rendered while the box holds text.
ClearSearch ==
  /\ ~popupOpen
  /\ searchQuery # ""
  /\ searchQuery' = ""
  /\ UNCHANGED <<selectedScenario, popupOpen, interviewVars, importVars, shellVars>>

\* handleScenarioClick on the i-th card of the grid.
ScenarioClick(i) ==
  /\ ~popupOpen
  /\ i \in 1..Len(filteredScenarios(searchQuery))
  /\ selectedScenario' = filteredScenarios(searchQuery)[i]
  /\ popupOpen' = TRUE
  /\ UNCHANGED <<searchQuery, interviewVars, importVars, shellVars>>

\* onClose of the popup
ClosePopup ==
  /\ popupOpen
  /\ popupOpen' = FALSE
  /\ UNCHANGED <<searchQuery, selectedScenario, interviewVars, importVars, shellVars>>

NextIndex ==
  \/ \E q \in Queries : SetSearchQuery(q)
  \/ ClearSearch
  \/ \E i \in 1..Len(allScenarios) : ScenarioClick(i)
  \/ ClosePopup

SpecIndex == Init /\ [][NextIndex]_vars

(***************************************************************************)
(* JSON                                                                    *)
(***************************************************************************)
\* A JSON value: its type, the characters of a string or number, the
\* elements of an array or the member values of an object, and the member
\* names of an object.
JNull == [type |-> "null", str |-> "", items |-> <<>>, keys |-> <<>>]
JString(s) == [type |-> "string", str |-> s, items |-> <<>>, keys |-> <<>>]
JNumber(s) == [type |-> "number", str |-> s, items |-> <<>>, keys |-> <<>>]
JArray(items) == [type |-> "array", str |-> "", items |-> items, keys |-> <<>>]
JObject(keys, items) ==
  [type |-> "object", str |-> "", items |-> items, keys |-> keys]

\* A JSON text is a sequence of tokens: the six structural characters, the
\* whitespace token, the literal null, number literals, and string literals,
\* written as the opening quote followed by the characters of the string.
Quote == "\""
NumberTokens == {"0", "1", "42"}

\* JSON.stringify(value, null, 2), with every run of line break and
\* indentation written as one whitespace token
RECURSIVE JSONstringify(_)
RECURSIVE stringifyElements(_)
RECURSIVE stringifyMembers(_, _)
JSONstringify(value) ==
  IF value.type = "string" THEN <<Quote \o value.str>>
  ELSE IF value.type = "number" THEN <<value.str>>
  ELSE IF value.type = "array"
       THEN IF value.items = <<>> THEN <<"[", "]">>
            ELSE <<"[", " ">> \o stringifyElements(value.items) \o <<" ", "]">>
  ELSE IF value.type = "object"
       THEN IF value.keys = <<>> THEN <<"{", "}">>
            ELSE <<"{", " ">> \o stringifyMembers(value.keys, value.items)
                   \o <<" ", "}">>
  ELSE <<"null">>

stringifyElements(items) ==
  JSONstringify(Head(items)) \o
    (IF Tail(items) = <<>> THEN <<>>
     ELSE <<",", " ">> \o stringifyElements(Tail(items)))

stringifyMembers(keys, items) ==
  <<Quote \o Head(keys), ":", " ">> \o JSONstringify(Head(items)) \o
    (IF Tail(keys) = <<>> THEN <<>>
     ELSE <<",", " ">> \o stringifyMembers(Tail(keys), Tail(items)))

\* The outcome of reading a value from the front of a token sequence.
ParseFailed == [ok |-> FALSE, value |-> JNull, rest |-> <<>>]
Parsed(value, rest) == [ok |-> TRUE, value |-> value, rest |-> rest]

isStringToken(tok) == tok # "" /\ Head(tok) = Quote

RECURSIVE parseValue(_)
RECURSIVE parseElements(_, _)
RECURSIVE parseMembers(_, _, _)
parseValue(toks) ==
  LET t == TrimStart(toks) IN
  IF t = <<>> THEN ParseFailed
  ELSE LET tok == Head(t)
           u == TrimStart(Tail(t))
       IN IF tok = "["
          THEN IF u # <<>> /\ Head(u) = "]"
               THEN Parsed(JArray(<<>>), Tail(u))
               ELSE parseElements(u, <<>>)
          ELSE IF tok = "{"
          THEN IF u # <<>> /\ Head(u) = "}"
               THEN Parsed(JObject(<<>>, <<>>), Tail(u))
               ELSE parseMembers(u, <<>>, <<>>)
          ELSE IF tok = "null" THEN Parsed(JNull, Tail(t))
          ELSE IF tok \in NumberTokens THEN Parsed(JNumber(tok), Tail(t))
          ELSE IF isStringToken(tok) THEN Parsed(JString(Tail(tok)), Tail(t))
          ELSE ParseFailed

\* The elements of an array after "[" or ",": a value, then "," or "]".
parseElements(toks, acc) ==
  LET r == parseValue(toks)
      u == TrimStart(r.rest)
  IN IF ~r.ok \/ u = <<>> THEN ParseFailed
     ELSE IF Head(u) = "," THEN parseElements(Tail(u), Append(acc, r.value))
     ELSE IF Head(u) = "]" THEN Parsed(JArray(Append(acc, r.value)), Tail(u))
     ELSE ParseFailed

\* The members of an object after "{" or ",": a name, ":", a value, then
\* "," or "}".
parseMembers(toks, keys, items) ==
  LET t == TrimStart(toks) IN
  IF t = <<>> \/ ~isStringToken(Head(t)) THEN ParseFailed
  ELSE LET c == TrimStart(Tail(t)) IN
       IF c = <<>> \/ Head(c) # ":" THEN ParseFailed
       ELSE LET r == parseValue(Tail(c))
                u == TrimStart(r.rest)
                ks == Append(keys, Tail(Head(t)))
                vs == Append(items, r.value)
            IN IF ~r.ok \/ u = <<>> THEN ParseFailed
               ELSE IF Head(u) = "," THEN parseMembers(Tail(u), ks, vs)
               ELSE IF Head(u) = "}" THEN Parsed(JObject(ks, vs), Tail(u))
               ELSE ParseFailed

\* JSON.parse: the value of the text, or a SyntaxError.
JSONparse(text) ==
  LET r == parseValue(text) IN
  IF r.ok /\ TrimStart(r.rest) = <<>>
  THEN [ok |-> TRUE, value |-> r.value]
  ELSE [ok |-> FALSE, value |-> JNull]

\* obj[key] of a parsed object: the last member of that name.
hasKey(obj, key) == \E i \in 1..Len(obj.keys) : obj.keys[i] = key

get(obj, key) ==
  LET i == CHOOSE k \in 1..Len(obj.keys) :
             /\ obj.keys[k] = key
             /\ \A m \in (k + 1)..Len(obj.keys) : obj.keys[m] # key
  IN obj.items[i]

(***************************************************************************)
(* ImportScenarioDialog                                                    *)
(***************************************************************************)
\* z.string().min(min).max(max) on a member of an object: the issues zod
\* reports, in its order and with its default messages.
zString(present, value, min, max) ==
  IF ~present THEN <<"Required">>
  ELSE IF value.type # "string"
  THEN <<"Expected string, received " \o value.type>>
  ELSE (IF Len(value.str) < min
        THEN <<"String must contain at least " \o ToString(min)
                 \o " character(s)">>
        ELSE <<>>) \o
       (IF Len(value.str) > max
        THEN <<"String must contain at most " \o ToString(max)
                 \o " character(s)">>
        ELSE <<>>)

\* .optional(): an absent member raises no issue
zOptionalString(present, value, min, max) ==
  IF ~present THEN <<>> ELSE zString(TRUE, value, min, max)

member(obj, key) == IF hasKey(obj, key) THEN get(obj, key) ELSE JNull

\* The object schema of one element of `stakeholders`.
stakeholderIssues(value) ==
  IF value.type # "object"
  THEN <<"Expected object, received " \o value.type>>
  ELSE zString(hasKey(value, "name"), member(value, "name"), 1, 100)
       \o zString(hasKey(value, "role"), member(value, "role"), 1, 100)
       \o zString(hasKey(value, "description"),
                  member(value, "description"), 1, 500)

RECURSIVE elementIssues(_)
elementIssues(items) ==
  IF items = <<>> THEN <<>>
  ELSE stakeholderIssues(Head(items)) \o elementIssues(Tail(items))

\* z.array(...).min(1)
stakeholdersIssues(present, value) ==
  IF ~present THEN <<"Required">>
  ELSE IF value.type # "array"
  THEN <<"Expected array, received " \o value.type>>
  ELSE (IF Len(value.items) < 1
        THEN <<"Array must contain at least 1 element(s)">> ELSE <<>>)
       \o elementIssues(value.items)

\* importSchema without .min(1) on the stakeholders.
importIssues_NoMin(value) ==
  IF value.type # "object"
  THEN <<"Expected object, received " \o value.type>>
  ELSE zString(hasKey(value, "title"), member(value, "title"), 1, 100)
       \o zOptionalString(hasKey(value, "shortDescription"),
                          member(value, "shortDescription"), 1, 200)
       \o zString(hasKey(value, "fullDescription"),
                  member(value, "fullDescription"), 1, 2000)
       \o zOptionalString(hasKey(value, "category"),
                          member(value, "category"), 1, 50)
       \o (IF hasKey(value, "stakeholders")
              /\ member(value, "stakeholders").type = "array"
           THEN elementIssues(member(value, "stakeholders").items)
           ELSE <<>>)

\* The issues importSchema.parse raises on a parsed document (a ZodError
\* when there is one).
importIssues(value) ==
  IF value.type # "object"
  THEN <<"Expected object, received " \o value.type>>
  ELSE zString(hasKey(value, "title"), member(value, "title"), 1, 100)
       \o zOptionalString(hasKey(value, "shortDescription"),
                          member(value, "shortDescription"), 1, 200)
       \o zString(hasKey(value, "fullDescription"),
                  member(value, "fullDescription"), 1, 2000)
       \o zOptionalString(hasKey(value, "category"),
                          member(value, "category"), 1, 50)
       \o stakeholdersIssues(hasKey(value, "stakeholders"),
                             member(value, "stakeholders"))

\* The value of an optional member that is absent.
Undefined == "<undefined>"

\* a || b on strings
Or(a, b) == IF a = Undefined \/ a = "" THEN b ELSE a

optional(obj, key) ==
  IF hasKey(obj, key) THEN get(obj, key).str ELSE Undefined

\* What importSchema.parse returns for a document without issues.
validated(value) ==
  [title |-> member(value, "title").str,
   shortDescription |-> optional(value, "shortDescription"),
   fullDescription |-> member(value, "fullDescription").str,
   category |-> optional(value, "category"),
   stakeholders |->
     [i \in 1..Len(member(value, "stakeholders").items) |->
        LET st == member(value, "stakeholders").items[i] IN
        [name |-> member(st, "name").str, role |-> member(st, "role").str,
         description |-> member(st, "description").str]]]

\* The state the dialog's handlers work on.
Dialog ==
  [showImportDialog |-> showImportDialog, importJson |-> importJson,
   isSubmitting |-> isSubmitting, toast |-> toast, imported |-> imported,
   customScenarios |-> customScenarios, showCreateDialog |-> showCreateDialog]

RenderDialog(d) ==
  /\ showImportDialog' = d.showImportDialog
  /\ importJson' = d.importJson
  /\ isSubmitting' = d.isSubmitting
  /\ toast' = d.toast
  /\ imported' = d.imported
  /\ customScenarios' = d.customScenarios
  /\ showCreateDialog' = d.showCreateDialog

\* Index.handleAddScenario keeping the scenario it is handed.
handleAddScenario_Saves(d, newScenario) ==
  [d EXCEPT
     !.imported = Append(@, newScenario),
     !.customScenarios = Append(@, newScenario),
     !.toast = ToastInfo("Manage Scenarios is UI-only in standalone mode (no saving yet).")]

\* Index.handleAddScenario, which is the dialog's onImportScenario; the
\* scenario it is handed is recorded.
handleAddScenario(d, newScenario) ==
  [d EXCEPT
     !.imported = Append(@, newScenario),
     !.toast = ToastInfo("Manage Scenarios is UI-only in standalone mode (no saving yet).")]

resetForm(d) == [d EXCEPT !.importJson = <<>>]

\* importedScenario with the reviewer's identifier as the placeholder of
\* the first stakeholder.
importedScenario_ReviewerPlaceholder(v) ==
  [title |-> v.title,
   shortDescription |-> Or(v.shortDescription, v.title),
   fullDescription |-> v.fullDescription,
   category |-> Or(v.category, "Custom"),
   stakeholders |->
     [i \in 1..Len(v.stakeholders) |->
        [id |-> IF i = 1 THEN "senior-engineer"
                ELSE "temp-" \o ToString(i - 1),
         name |-> v.stakeholders[i].name,
         role |-> v.stakeholders[i].role,
         description |-> v.stakeholders[i].description]]]

\* The Scenario (without id) built from a validated document.
importedScenario(v) ==
  [title |-> v.title,
   shortDescription |-> Or(v.shortDescription, v.title),
   fullDescription |-> v.fullDescription,
   category |-> Or(v.category, "Custom"),
   stakeholders |->
     [i \in 1..Len(v.stakeholders) |->
        [id |-> "temp-" \o ToString(i - 1),
         name |-> v.stakeholders[i].name,
         role |-> v.stakeholders[i].role,
         description |-> v.stakeholders[i].description]]]

\* processJsonContent with the form reset and the dialog closed in the
\* finally branch.
processJsonContent_ResetsOnFailure(d, content) ==
  LET parsed == JSONparse(content)
      issues == importIssues(parsed.value)
      outcome ==
        IF ~parsed.ok THEN [d EXCEPT !.toast = ToastError("Invalid JSON format")]
        ELSE IF issues # <<>> THEN [d EXCEPT !.toast = ToastError(issues[1])]
        ELSE [handleAddScenario([d EXCEPT !.isSubmitting = TRUE],
                                importedScenario(validated(parsed.value)))
              EXCEPT !.toast = ToastSuccess("Scenario imported successfully!")]
  IN [resetForm(outcome) EXCEPT
        !.showImportDialog = FALSE, !.isSubmitting = FALSE]

\* The callback's promise is resolved when it returns, and no event of the
\* user is handled before the continuation has run: one step.
processJsonContent(d, content) ==
  LET parsed == JSONparse(content)
      issues == importIssues(parsed.value)
      outcome ==
        IF ~parsed.ok THEN [d EXCEPT !.toast = ToastError("Invalid JSON format")]
        ELSE IF issues # <<>> THEN [d EXCEPT !.toast = ToastError(issues[1])]
        ELSE LET submitting == [d EXCEPT !.isSubmitting = TRUE]
                 handed == handleAddScenario(
                             submitting,
                             importedScenario(validated(parsed.value)))
                 closed == [resetForm(handed) EXCEPT
                              !.showImportDialog = FALSE]
             IN [closed EXCEPT
                   !.toast = ToastSuccess("Scenario imported successfully!")]
  IN [outcome EXCEPT !.isSubmitting = FALSE]

handleImport(d) ==
  IF Trim(d.importJson) = <<>> THEN d
  ELSE processJsonContent(d, d.importJson)

\* handleClose: onOpenChange of the dialog
handleClose(d) == [resetForm(d) EXCEPT !.showImportDialog = FALSE]

(***************************************************************************)
(* ManageScenariosDialog                                                   *)
(***************************************************************************)
\* exportObject without the category.
exportObject_NoCategory(s) ==
  JObject(
    <<"title", "shortDescription", "fullDescription", "stakeholders">>,
    <<JString(s.title), JString(s.shortDescription),
      JString(s.fullDescription),
      JArray([i \in 1..Len(s.stakeholders) |->
                JObject(<<"name", "role", "description">>,
                        <<JString(s.stakeholders[i].name),
                          JString(s.stakeholders[i].role),
                          JString(s.stakeholders[i].description)>>)])>>)

\* The object handleExportAll writes for a scenario: the identifiers are
\* left out.
exportObject(s) ==
  JObject(
    <<"title", "shortDescription", "fullDescription", "category",
      "stakeholders">>,
    <<JString(s.title), JString(s.shortDescription),
      JString(s.fullDescription), JString(s.category),
      JArray([i \in 1..Len(s.stakeholders) |->
                JObject(<<"name", "role", "description">>,
                        <<JString(s.stakeholders[i].name),
                          JString(s.stakeholders[i].role),
                          JString(s.stakeholders[i].description)>>)])>>)

\* The content of scenarios-export.json
handleExportAll ==
  JSONstringify(
    JArray([i \in 1..Len(allScenarios) |-> exportObject(allScenarios[i])]))

(***************************************************************************)
(* The texts a user has at hand to paste or to load from a .json file      *)
(***************************************************************************)
RECURSIVE Repeat(_, _)
Repeat(c, n) == IF n = 0 THEN "" ELSE c \o Repeat(c, n - 1)

OneStakeholder ==
  JArray(<<JObject(<<"name", "role", "description">>,
                   <<JString("Ann"), JString("Owner"),
                     JString("Runs the shop")>>)>>)

\* Every member of the schema, one stakeholder.
FullDocument ==
  JObject(<<"title", "shortDescription", "fullDescription", "category",
            "stakeholders">>,
          <<JString("Shop"), JString("A shop"), JString("An online shop"),
            JString("Retail"), OneStakeholder>>)

\* The required members only, one stakeholder.
MinimalDocument ==
  JObject(<<"title", "fullDescription", "stakeholders">>,
          <<JString("Shop"), JString("An online shop"), OneStakeholder>>)

NoStakeholdersDocument ==
  JObject(<<"title", "fullDescription">>,
          <<JString("Shop"), JString("An online shop")>>)

\* A document whose only violation is the absent title.
NoTitleDocument ==
  JObject(<<"fullDescription", "stakeholders">>,
          <<JString("An online shop"), OneStakeholder>>)

EmptyStakeholdersDocument ==
  JObject(<<"title", "fullDescription", "stakeholders">>,
          <<JString("Shop"), JString("An online shop"), JArray(<<>>)>>)

\* A title one character longer than the schema allows.
LongTitleDocument ==
  JObject(<<"title", "fullDescription", "stakeholders">>,
          <<JString(Repeat("a", 100) \o "a"), JString("An online shop"),
            OneStakeholder>>)

\* The format the dialog's help shows: an array of scenario objects.
DocumentedFormat == JArray(<<FullDocument>>)

\* Texts that are not JSON: an object cut off after a colon, a bare word.
TruncatedText == <<"{", " ", Quote \o "title", ":">>
PlainText == <<"hello">>

\* The text of each object of scenarios-export.json
ExportedText ==
  [i \in 1..Len(allScenarios) |-> JSONstringify(exportObject(allScenarios[i]))]

ExportedObjects == {ExportedText[i] : i \in 1..Len(allScenarios)}

Documents ==
  {JSONstringify(FullDocument), JSONstringify(MinimalDocument),
   JSONstringify(NoStakeholdersDocument), JSONstringify(NoTitleDocument),
   JSONstringify(EmptyStakeholdersDocument),
   JSONstringify(LongTitleDocument), JSONstringify(DocumentedFormat),
   TruncatedText, PlainText, <<" ">>, handleExportAll}
    \cup ExportedObjects

\* Number of imports that are followed.
MaxImports == 1

(***************************************************************************)
(* User events of the scenario management dialogs                          *)
(***************************************************************************)
sessionVars ==
  <<scenario, activeStakeholderId, chatHistories, requirements, isLoading,
    showDeleteDialog, uuid, input, type, description>>

\* The "Manage Scenarios" button of the Index page.
OpenManage ==
  /\ ~manageOpen
  /\ manageOpen' = TRUE
  /\ UNCHANGED <<showImportDialog, importJson, isSubmitting, imported, customScenarios,
                 showCreateDialog, toast,
                 sessionVars, indexVars, shellVars>>

\* onClose of the Manage Scenarios dialog (the import dialog lies over it).
CloseManage ==
  /\ manageOpen /\ ~showImportDialog /\ ~showCreateDialog
  /\ manageOpen' = FALSE
  /\ UNCHANGED <<showImportDialog, importJson, isSubmitting, imported, customScenarios,
                 showCreateDialog, toast,
                 sessionVars, indexVars, shellVars>>

\* The "Export All" button.
ExportAll ==
  /\ manageOpen /\ ~showImportDialog /\ ~showCreateDialog
  /\ toast' = ToastSuccess("Scenarios exported successfully!")
  /\ UNCHANGED <<importVars, sessionVars, indexVars, shellVars>>

\* The "Import" button of the Manage Scenarios dialog.
OpenImportDialog ==
  /\ manageOpen /\ ~showImportDialog /\ ~showCreateDialog
  /\ showImportDialog' = TRUE
  /\ UNCHANGED <<manageOpen, importJson, isSubmitting, imported, customScenarios,
                 showCreateDialog, toast,
                 sessionVars, indexVars, shellVars>>

\* Escape, the close button, a click outside the import dialog.
CloseImportDialog ==
  /\ showImportDialog
  /\ RenderDialog(handleClose(Dialog))
  /\ UNCHANGED <<manageOpen, sessionVars, indexVars, shellVars>>

\* onChange of the JSON text box
PasteJson(text) ==
  /\ showImportDialog
  /\ text # importJson
  /\ importJson' = text
  /\ UNCHANGED <<manageOpen, showImportDialog, isSubmitting, imported, customScenarios,
                 showCreateDialog, toast,
                 sessionVars, indexVars, shellVars>>

\* handleFileRead of a .json file, read without error
LoadFile(text) ==
  /\ showImportDialog
  /\ importJson' = text
  /\ toast' = ToastSuccess("File loaded! Click Import to continue.")
  /\ UNCHANGED <<manageOpen, showImportDialog, isSubmitting, imported,
                 customScenarios, showCreateDialog, sessionVars, indexVars, shellVars>>

\* The "Import Scenario" button, enabled while the box holds text and no
\* import is in progress.
Import ==
  /\ showImportDialog
  /\ Trim(importJson) # <<>> /\ ~isSubmitting
  /\ Len(handleImport(Dialog).imported) <= MaxImports
  /\ RenderDialog(handleImport(Dialog))
  /\ UNCHANGED <<manageOpen, sessionVars, indexVars, shellVars>>

NextImport ==
  \/ OpenManage
  \/ CloseManage
  \/ ExportAll
  \/ OpenImportDialog
  \/ CloseImportDialog
  \/ \E text \in Documents \cup {<<>>} : PasteJson(text)
  \/ \E text \in Documents : LoadFile(text)
  \/ Import

SpecImport == Init /\ [][NextImport]_vars

(***************************************************************************)
(* Creating, editing and deleting scenarios                                *)
(***************************************************************************)
\* Index.handleDeleteScenario
handleDeleteScenario(d, id) ==
  [d EXCEPT
     !.toast = ToastInfo("Manage Scenarios is UI-only in standalone mode (no deleting yet).")]

\* Index.handleUpdateScenario
handleUpdateScenario(d, id, data) ==
  [d EXCEPT
     !.toast = ToastInfo("Manage Scenarios is UI-only in standalone mode (no editing yet).")]

\* ManageScenariosDialog.handleDelete: confirm(), then onDeleteScenario.
handleDelete(d, id, confirmed) ==
  IF confirmed
  THEN [handleDeleteScenario(d, id) EXCEPT
          !.toast = ToastSuccess("Scenario deleted")]
  ELSE d

\* What the create form holds when it is submitted.
StakeholderForm(name) ==
  [name |-> name, role |-> "Owner", description |-> "Runs the shop"]

FormOf(title, stakeholders) ==
  [title |-> title, shortDescription |-> "A shop",
   fullDescription |-> "An online shop", category |-> "Retail",
   stakeholders |-> stakeholders]

Forms ==
  {FormOf(" Shop ", <<StakeholderForm("Ann")>>),
   FormOf("Shop", <<StakeholderForm("Ann"), StakeholderForm(" Bob")>>),
   FormOf("  ", <<StakeholderForm("Ann")>>),
   FormOf("Shop", <<StakeholderForm("")>>)}

\* The form with every field trimmed.
trimmedForm(form) ==
  [title |-> trim(form.title),
   shortDescription |-> trim(form.shortDescription),
   fullDescription |-> trim(form.fullDescription),
   category |-> trim(form.category),
   stakeholders |->
     [i \in 1..Len(form.stakeholders) |->
        [name |-> trim(form.stakeholders[i].name),
         role |-> trim(form.stakeholders[i].role),
         description |-> trim(form.stakeholders[i].description)]]]

\* z.string().min(1, message): the inputs' maxLength keeps the upper limits.
zMin(value, message) == IF value = "" THEN <<message>> ELSE <<>>

RECURSIVE formStakeholderIssues(_)
formStakeholderIssues(list) ==
  IF list = <<>> THEN <<>>
  ELSE zMin(Head(list).name, "Name is required")
         \o zMin(Head(list).role, "Role is required")
         \o zMin(Head(list).description, "Description is required")
         \o formStakeholderIssues(Tail(list))

\* scenarioSchema.parse(data): the messages of the issues, in schema order.
scenarioIssues(data) ==
  zMin(data.title, "Title is required")
    \o zMin(data.shortDescription, "Short description is required")
    \o zMin(data.fullDescription, "Full description is required")
    \o zMin(data.category, "Category is required")
    \o (IF data.stakeholders = <<>>
        THEN <<"At least one stakeholder is required">>
        ELSE formStakeholderIssues(data.stakeholders))

\* `temp-${i}`
tempId(i) == "temp-" \o ToString(i)

scenarioData(validatedForm) ==
  [title |-> validatedForm.title,
   shortDescription |-> validatedForm.shortDescription,
   fullDescription |-> validatedForm.fullDescription,
   category |-> validatedForm.category,
   stakeholders |->
     [i \in 1..Len(validatedForm.stakeholders) |->
        [id |-> tempId(i - 1),
         name |-> validatedForm.stakeholders[i].name,
         role |-> validatedForm.stakeholders[i].role,
         description |-> validatedForm.stakeholders[i].description]]]

\* CreateScenarioDialog.handleSubmit; editScenario is NullScenario in the
\* create dialog.  onClose of the create dialog clears showCreateDialog,
\* onClose of the edit dialog clears editingScenario.
handleSubmitScenario(d, form, editScenario) ==
  LET data == trimmedForm(form)
      issues == scenarioIssues(data)
  IN IF issues # <<>> THEN [d EXCEPT !.toast = ToastError(issues[1])]
     ELSE IF editScenario # NullScenario
     THEN [handleUpdateScenario(d, editScenario.id, scenarioData(data)) EXCEPT
             !.toast = ToastSuccess("Scenario updated successfully!")]
     ELSE [handleAddScenario(d, scenarioData(data)) EXCEPT
             !.toast = ToastSuccess("Scenario created successfully!"),
             !.showCreateDialog = FALSE]

\* The "Create New" button of the Manage Scenarios dialog.
OpenCreateDialog ==
  /\ manageOpen /\ ~showImportDialog /\ ~showCreateDialog
  /\ showCreateDialog' = TRUE
  /\ UNCHANGED <<manageOpen, showImportDialog, importJson, isSubmitting,
                 imported, customScenarios, toast, sessionVars, indexVars,
                 shellVars>>

\* Cancel, Escape, a click outside the create dialog.
CloseCreateDialog ==
  /\ showCreateDialog
  /\ showCreateDialog' = FALSE
  /\ UNCHANGED <<manageOpen, showImportDialog, importJson, isSubmitting,
                 imported, customScenarios, toast, sessionVars, indexVars,
                 shellVars>>

\* The "Create Scenario" button.
SubmitCreate(form) ==
  /\ showCreateDialog
  /\ LET out == handleSubmitScenario(Dialog, form, NullScenario)
     IN /\ Len(out.imported) <= MaxImports
        /\ RenderDialog(out)
  /\ UNCHANGED <<manageOpen, sessionVars, indexVars, shellVars>>

\* The documents pasted while scenarios are managed.
ManageDocuments ==
  {JSONstringify(MinimalDocument), JSONstringify(NoTitleDocument)}

NextManage ==
  \/ OpenManage
  \/ CloseManage
  \/ ExportAll
  \/ OpenCreateDialog
  \/ CloseCreateDialog
  \/ \E form \in Forms : SubmitCreate(form)
  \/ OpenImportDialog
  \/ CloseImportDialog
  \/ \E text \in ManageDocuments : PasteJson(text)
  \/ Import

SpecManage == Init /\ [][NextManage]_vars

(***************************************************************************)
(* The toast store (use-toast)                                             *)
(***************************************************************************)
\* const TOAST_LIMIT = 1
TOAST_LIMIT == 1

\* How many toasts one run creates.
MaxToasts == 4

\* The titles a toast is created or patched with.
Titles == {"Saved", "Failed", "Copied"}

\* The identifiers genId() hands out: the counter as a decimal string.
ToastIds == {ToString(i) : i \in 1..(MaxToasts + 1)}

\* genId(): count = (count + 1) % Number.MAX_SAFE_INTEGER; count.toString().
\* The counter of a run stays far below the modulus.
genId(c) == [count |-> c + 1, id |-> ToString(c + 1)]

\* Array.prototype.slice(0, end)
slice(list, end) ==
  IF Len(list) <= end THEN list ELSE SubSeq(list, 1, end)

\* The timers the store holds once addToRemoveQueue(toastId) has run: a
\* toast that already has a timer gets no second one.
addToRemoveQueue(timeouts, toastId) == timeouts \cup {toastId}

\* { ...t, ...action.toast }: a field the patch leaves out keeps its value.
patched(t, patch) ==
  [k \in DOMAIN t \cup DOMAIN patch |->
     IF k \in DOMAIN patch THEN patch[k] ELSE t[k]]

\* t.id === action.toast.id: a patch without an id matches no toast.
sameId(t, patch) == "id" \in DOMAIN patch /\ t.id = patch.id

\* The reducer without the trim to TOAST_LIMIT.
reducer_NoLimit(state, action) ==
  CASE action.type = "ADD_TOAST" ->
         [toasts |-> <<action.toast>> \o state.toasts]
    [] action.type = "UPDATE_TOAST" ->
         [toasts |->
            [i \in 1..Len(state.toasts) |->
               IF sameId(state.toasts[i], action.toast)
               THEN patched(state.toasts[i], action.toast)
               ELSE state.toasts[i]]]
    [] action.type = "DISMISS_TOAST" ->
         [toasts |->
            [i \in 1..Len(state.toasts) |->
               IF \/ state.toasts[i].id = action.toastId
                  \/ action.toastId = Undefined
               THEN [state.toasts[i] EXCEPT !.open = FALSE]
               ELSE state.toasts[i]]]
    [] action.type = "REMOVE_TOAST" ->
         IF action.toastId = Undefined
         THEN [toasts |-> <<>>]
         ELSE [toasts |->
                 SelectSeq(state.toasts,
                           LAMBDA t : t.id # action.toastId)]

\* reducer(state, action): the list of toasts after the action.
reducer(state, action) ==
  CASE action.type = "ADD_TOAST" ->
         [toasts |-> slice(<<action.toast>> \o state.toasts, TOAST_LIMIT)]
    [] action.type = "UPDATE_TOAST" ->
         [toasts |->
            [i \in 1..Len(state.toasts) |->
               IF sameId(state.toasts[i], action.toast)
               THEN patched(state.toasts[i], action.toast)
               ELSE state.toasts[i]]]
    [] action.type = "DISMISS_TOAST" ->
         [toasts |->
            [i \in 1..Len(state.toasts) |->
               IF \/ state.toasts[i].id = action.toastId
                  \/ action.toastId = Undefined
               THEN [state.toasts[i] EXCEPT !.open = FALSE]
               ELSE state.toasts[i]]]
    [] action.type = "REMOVE_TOAST" ->
         IF action.toastId = Undefined
         THEN [toasts |-> <<>>]
         ELSE [toasts |->
                 SelectSeq(state.toasts,
                           LAMBDA t : t.id # action.toastId)]

\* The removal timers after the reducer ran: DISMISS_TOAST queues the toast
\* it names, or every toast of the list when it names none ("" is falsy).
queuedBy(state, timeouts, action) ==
  IF action.type # "DISMISS_TOAST" THEN timeouts
  ELSE IF action.toastId # Undefined /\ action.toastId # ""
       THEN addToRemoveQueue(timeouts, action.toastId)
       ELSE timeouts \cup {state.toasts[i].id : i \in 1..Len(state.toasts)}

AddToast(t) == [type |-> "ADD_TOAST", toast |-> t]
UpdateToast(patch) == [type |-> "UPDATE_TOAST", toast |-> patch]
DismissToast(toastId) == [type |-> "DISMISS_TOAST", toastId |-> toastId]
RemoveToast(toastId) == [type |-> "REMOVE_TOAST", toastId |-> toastId]

\* dispatch(action): memoryState = reducer(memoryState, action).
dispatch(action) ==
  /\ memoryState' = reducer(memoryState, action)
  /\ toastTimeouts' = queuedBy(memoryState, toastTimeouts, action)

\* The identifiers of the toasts created so far: the handles toast() gave.
handles == {ToString(i) : i \in 1..count}

\* Everything but the toast store.
pageVars ==
  <<scenario, activeStakeholderId, chatHistories, requirements, isLoading,
    showDeleteDialog, toast, uuid, input, type, description, indexVars,
    importVars, appVars>>

\* toast({ title }): a new identifier, then ADD_TOAST with open = true.
CreateToast(title) ==
  /\ count < MaxToasts
  /\ LET g == genId(count)
     IN /\ count' = g.count
        /\ dispatch(AddToast([id |-> g.id, title |-> title, open |-> TRUE]))
  /\ UNCHANGED pageVars

\* The update() of a handle: UPDATE_TOAST with { ...props, id }.
UpdateHandle(id, title) ==
  /\ id \in handles
  /\ dispatch(UpdateToast([id |-> id, title |-> title]))
  /\ UNCHANGED <<count, pageVars>>

\* The dismiss() of a handle, the toast's onOpenChange(false), or
\* useToast().dismiss(toastId).
DismissHandle(id) ==
  /\ id \in handles
  /\ dispatch(DismissToast(id))
  /\ UNCHANGED <<count, pageVars>>

\* useToast().dismiss() without an identifier.
DismissAll ==
  /\ count > 0
  /\ dispatch(DismissToast(Undefined))
  /\ UNCHANGED <<count, pageVars>>

\* A removal timer fires: it leaves the map and dispatches REMOVE_TOAST.
RemoveTimeout(id) ==
  /\ id \in toastTimeouts
  /\ memoryState' = reducer(memoryState, RemoveToast(id))
  /\ toastTimeouts' = toastTimeouts \ {id}
  /\ UNCHANGED <<count, pageVars>>

NextToast ==
  \/ \E title \in Titles : CreateToast(title)
  \/ \E id \in ToastIds, title \in Titles : UpdateHandle(id, title)
  \/ \E id \in ToastIds : DismissHandle(id)
  \/ DismissAll
  \/ \E id \in ToastIds : RemoveTimeout(id)

SpecToast == Init /\ [][NextToast]_vars

(***************************************************************************)
(* The application: routes, the stored login flag, Auth and Account        *)
(***************************************************************************)
\* The page specifications above exercise one page's handlers whatever the
\* route; here the pages are mounted and unmounted by the router.
Routes == {"/", "/auth", "/interview", "/account"}

\* What the email boxes are filled with.
Emails == {"ann@example.com", "bob@example.com"}

\* localStorage of a browser that never signed in, and of one that did.
Stores ==
  {[regai_logged_in |-> Undefined, regai_email |-> Undefined],
   [regai_logged_in |-> "true", regai_email |-> "you@example.com"]}

\* The state the router and the pages' handlers work on.
App ==
  [location |-> location, localStorage |-> localStorage,
   isLoggedIn |-> isLoggedIn, isLogin |-> isLogin, email |-> email,
   authLoading |-> authLoading, timers |-> timers,
   searchQuery |-> searchQuery, selectedScenario |-> selectedScenario,
   popupOpen |-> popupOpen, page |-> Page]

RenderApp(a) ==
  /\ location' = a.location
  /\ localStorage' = a.localStorage
  /\ isLoggedIn' = a.isLoggedIn
  /\ isLogin' = a.isLogin
  /\ email' = a.email
  /\ authLoading' = a.authLoading
  /\ timers' = a.timers
  /\ searchQuery' = a.searchQuery
  /\ selectedScenario' = a.selectedScenario
  /\ popupOpen' = a.popupOpen
  /\ RenderPage(a.page)
  /\ UNCHANGED <<importVars, memoryState, count, toastTimeouts>>

\* The Interview page as it mounts, with the requirements of the page that
\* was shown before.
freshInterview_KeepsRequirements(s, payload) ==
  [scenario |-> payload, activeStakeholderId |-> "",
   chatHistories |-> EmptyHistories, requirements |-> s.requirements,
   isLoading |-> FALSE, showDeleteDialog |-> FALSE, toast |-> s.toast,
   uuid |-> s.uuid, input |-> <<>>, type |-> "functional",
   description |-> <<>>]

\* The Interview page as it mounts on location.state.scenario: the useState
\* initialisers (the notification and the identifiers handed out so far are
\* not the page's).
freshInterview(s, payload) ==
  [scenario |-> payload, activeStakeholderId |-> "",
   chatHistories |-> EmptyHistories, requirements |-> <<>>,
   isLoading |-> FALSE, showDeleteDialog |-> FALSE, toast |-> s.toast,
   uuid |-> s.uuid, input |-> <<>>, type |-> "functional",
   description |-> <<>>]

\* No page is mounted: every page's state is what its useState initialisers
\* will give it.
unmounted(a) ==
  [a EXCEPT !.isLoggedIn = FALSE, !.isLogin = TRUE, !.email = "",
            !.authLoading = FALSE, !.searchQuery = "",
            !.selectedScenario = NullScenario, !.popupOpen = FALSE,
            !.page = freshInterview(a.page, NullScenario)]

\* localStorage.getItem(LOGGED_IN_KEY) === "true"
readLoggedIn(a) == a.localStorage.regai_logged_in = "true"

\* navigate(path, { state: { scenario: payload } }): the route's page
\* mounts and its redirect effect runs.
RECURSIVE navigate(_, _, _)
navigate(a, path, payload) ==
  LET left == unmounted(a) IN
  CASE path = "/auth" -> [left EXCEPT !.location = "/auth"]
    [] path = "/" ->
         IF readLoggedIn(left)
         THEN [left EXCEPT !.location = "/", !.isLoggedIn = TRUE]
         ELSE navigate(left, "/auth", NullScenario)
    [] path = "/account" ->
         IF readLoggedIn(left)
         THEN [left EXCEPT !.location = "/account", !.isLoggedIn = TRUE]
         ELSE navigate(left, "/auth", NullScenario)
    [] path = "/interview" ->
         IF payload = NullScenario
         THEN navigate(left, "/", NullScenario)
         ELSE [left EXCEPT !.location = "/interview",
                           !.page = freshInterview(a.page, payload)]

\* handleLogout leaving the stored flag in place.
handleLogout_KeepsFlag(a) ==
  navigate([a EXCEPT !.isLoggedIn = FALSE,
                     !.page.toast = ToastSuccess("Signed out successfully")],
           "/auth", NullScenario)

\* Index.handleLogout
handleLogout(a) ==
  navigate([a EXCEPT !.localStorage.regai_logged_in = Undefined,
                     !.isLoggedIn = FALSE,
                     !.page.toast = ToastSuccess("Signed out successfully")],
           "/auth", NullScenario)

\* Index.handleStartInterview
handleStartInterview(a) ==
  IF a.selectedScenario = NullScenario THEN a
  ELSE navigate([a EXCEPT !.popupOpen = FALSE], "/interview",
                a.selectedScenario)

\* Auth.handleSubmit: the timer's callback closes over the email and the
\* mode of this render.
handleSubmitAuth(a) ==
  [a EXCEPT !.authLoading = TRUE,
            !.timers = @ \cup {[email |-> a.email, isLogin |-> a.isLogin]}]

\* The callback of Auth.handleSubmit's setTimeout, 500 ms later.
authTimeout(a, t) ==
  navigate(
    [a EXCEPT
       !.localStorage =
         [regai_logged_in |-> "true",
          regai_email |->
            IF trim(t.email) = "" THEN "you@example.com" ELSE trim(t.email)],
       !.page.toast =
         ToastSuccess(IF t.isLogin THEN "Welcome!" ELSE "Account created!"),
       !.authLoading = FALSE,
       !.timers = @ \ {t}],
    "/", NullScenario)

\* Account.handleUpdateEmail
handleUpdateEmail(a, value) ==
  IF trim(value) = ""
  THEN [a EXCEPT !.page.toast = ToastError("Please enter a valid email")]
  ELSE [a EXCEPT !.localStorage.regai_email = trim(value),
                 !.page.toast = ToastSuccess("Email updated.")]

\* The address bar: the application loads anew on the path, without route
\* state; pending timers and notifications are gone, localStorage stays.
Visit(path) ==
  /\ RenderApp(navigate([App EXCEPT !.timers = {}, !.page.toast = NoToast],
                        path, NullScenario))

\* onChange of Auth's email box
SetEmail(value) ==
  /\ location = "/auth" /\ ~authLoading
  /\ value # email
  /\ RenderApp([App EXCEPT !.email = value])

\* "Don't have an account? Sign up" and back
ToggleMode ==
  /\ location = "/auth" /\ ~authLoading
  /\ RenderApp([App EXCEPT !.isLogin = ~isLogin])

\* The submit button of Auth: the email is required, the button is disabled
\* while loading.
AuthSubmit ==
  /\ location = "/auth" /\ ~authLoading
  /\ email # ""
  /\ RenderApp(handleSubmitAuth(App))

\* What a pending callback of Auth.handleSubmit can have closed over.
Closures == [email : Emails \cup {""}, isLogin : BOOLEAN]

AuthTimeout(t) ==
  /\ t \in timers
  /\ RenderApp(authTimeout(App, t))

\* "Sign Out" of the dashboard's menu
Logout ==
  /\ location = "/" /\ isLoggedIn
  /\ RenderApp(handleLogout(App))

\* "Account" of the dashboard's menu
OpenAccount ==
  /\ location = "/" /\ isLoggedIn
  /\ RenderApp(navigate(App, "/account", NullScenario))

\* "Update email" of the Account page
UpdateEmail(value) ==
  /\ location = "/account" /\ isLoggedIn
  /\ RenderApp(handleUpdateEmail(App, value))

\* The back buttons of the Account and Interview pages
Back ==
  /\ location \in {"/account", "/interview"}
  /\ RenderApp(navigate(App, "/", NullScenario))

\* The cards of the dashboard that open the scenarios interviews are held on.
DashboardCard(i) ==
  /\ location = "/" /\ isLoggedIn
  /\ allScenarios[i] \in SessionScenarios
  /\ ScenarioClick(i)

DashboardClosePopup ==
  /\ location = "/" /\ isLoggedIn
  /\ ClosePopup

\* "Start Interview" of the popup
StartInterview ==
  /\ location = "/" /\ isLoggedIn
  /\ popupOpen
  /\ RenderApp(handleStartInterview(App))

InterviewSelect(id) ==
  /\ location = "/interview"
  /\ SelectStakeholder(id)

InterviewChat(text) ==
  /\ location = "/interview"
  /\ ChatSubmit(text)

InterviewAddRequirement(text) ==
  /\ location = "/interview"
  /\ AddRequirement(text)

NextApp ==
  \/ \E path \in Routes : Visit(path)
  \/ \E value \in Emails : SetEmail(value)
  \/ ToggleMode
  \/ AuthSubmit
  \/ \E t \in Closures : AuthTimeout(t)
  \/ Logout
  \/ OpenAccount
  \/ \E value \in Emails \cup {" "} : UpdateEmail(value)
  \/ Back
  \/ \E i \in 1..Len(allScenarios) : DashboardCard(i)
  \/ DashboardClosePopup
  \/ StartInterview
  \/ \E id \in PersonaIds : InterviewSelect(id)
  \/ InterviewChat(<<"a">>)
  \/ InterviewAddRequirement(<<"a">>)

\* The browser before the first visit.
InitApp ==
  /\ location = "about:blank"
  /\ localStorage \in Stores
  /\ isLoggedIn = FALSE
  /\ isLogin = TRUE
  /\ email = ""
  /\ authLoading = FALSE
  /\ timers = {}
  /\ scenario = NullScenario
  /\ activeStakeholderId = ""
  /\ chatHistories = EmptyHistories
  /\ requirements = <<>>
  /\ isLoading = FALSE
  /\ showDeleteDialog = FALSE
  /\ toast = NoToast
  /\ uuid = 0
  /\ input = <<>>
  /\ type = "functional"
  /\ description = <<>>
  /\ searchQuery = ""
  /\ selectedScenario = NullScenario
  /\ popupOpen = FALSE
  /\ manageOpen = FALSE
  /\ showImportDialog = FALSE
  /\ importJson = <<>>
  /\ isSubmitting = FALSE
  /\ imported = <<>>
  /\ customScenarios = <<>>
  /\ showCreateDialog = FALSE
  /\ memoryState = [toasts |-> <<>>]
  /\ count = 0
  /\ toastTimeouts = {}

SpecApp == InitApp /\ [][NextApp]_vars

(***************************************************************************)
(* Properties                                                              *)
(***************************************************************************)
reviewerBucket == Bucket(chatHistories, seniorEngineer.id)

\* The number of messages of a role in a bucket.
CountRole(bucket, role) ==
  Cardinality({i \in 1..Len(bucket) : bucket[i].role = role})

\* C1: a chat submit of a text that is non-empty after trimming, while a
\* stakeholder resolves, makes the user-message half of the send grow that
\* stakeholder's bucket by exactly one entry, of role "user" and holding
\* the trimmed text, directly after the messages that were there; a submit
\* of an empty or whitespace-only text leaves every bucket as it was.
C1_AppendUserMessage ==
  [][\A text \in Texts :
       ChatSubmit(text) =>
         LET id == activeStakeholderId
             before == Bucket(chatHistories, id)
             after == Bucket(chatHistories', id)
             half == Bucket(appendUserMessage(setInput(Page, text),
                                              Trim(text)).chatHistories, id)
         IN IF Trim(text) # <<>>
            THEN /\ Len(half) = Len(before) + 1
                 /\ SubSeq(half, 1, Len(before)) = before
                 /\ half[Len(half)].role = "user"
                 /\ half[Len(half)].content = Trim(text)
                 /\ SubSeq(after, 1, Len(half)) = half
                 /\ CountRole(after, "user") = CountRole(before, "user") + 1
            ELSE chatHistories' = chatHistories]_vars

\* A whitespace-only text was refused after a text with whitespace around
\* it had been sent: the bucket holds the trimmed text.
C1_Witness ==
  /\ input = <<" ">>
  /\ \E id \in DOMAIN chatHistories :
       /\ Len(chatHistories[id]) = 2
       /\ chatHistories[id][1].role = "user"
       /\ chatHistories[id][1].content = <<"a">>

\* C2: submit-for-review on an empty requirement list appends no message
\* and reports "Please add some requirements first"; the Submit for Review
\* button, on a non-empty list, appends to the reviewer's bucket exactly one
\* user message directly followed by exactly one assistant reply, and
\* leaves every other bucket as it was.
C2_EmptyRejected ==
  Len(requirements) = 0 =>
    LET after == handleSubmitForReview(Page) IN
    /\ after.chatHistories = chatHistories
    /\ after.toast = ToastError("Please add some requirements first")

C2_NonEmptyAppendsPair ==
  SubmitForReview =>
    LET before == reviewerBucket
        after == Bucket(chatHistories', seniorEngineer.id)
    IN /\ Len(requirements) > 0
       /\ Len(after) = Len(before) + 2
       /\ SubSeq(after, 1, Len(before)) = before
       /\ after[Len(before) + 1].role = "user"
       /\ after[Len(before) + 2].role = "assistant"
       /\ \A id \in (DOMAIN chatHistories \cup DOMAIN chatHistories')
                      \ {seniorEngineer.id} :
            Bucket(chatHistories', id) = Bucket(chatHistories, id)

C2_SubmitForReview == [](C2_EmptyRejected) /\ [][C2_NonEmptyAppendsPair]_vars

\* The reviewer's bucket starts with a review request and the reply to it.
C2_Witness ==
  /\ Len(reviewerBucket) >= 2
  /\ reviewerBucket[1].role = "user"
  /\ Head(reviewerBucket[1].content)
       = "Please review the following requirements I've gathered:\n\n"
  /\ reviewerBucket[2].role = "assistant"

\* C3: every bucket is a sequence of pairs, a user message directly
\* followed by the assistant reply to it, so no second user message stands
\* between a user message and its reply; and with the awaiting-reply flag
\* set a chat submit appends nothing and the Submit for Review button is
\* disabled.
PairedBucket(bucket) ==
  /\ Len(bucket) % 2 = 0
  /\ \A i \in 1..Len(bucket) :
       bucket[i].role = IF i % 2 = 1 THEN "user" ELSE "assistant"

C3_PairedSends ==
  /\ \A id \in DOMAIN chatHistories : PairedBucket(chatHistories[id])
  /\ LET awaiting == [Page EXCEPT !.isLoading = TRUE] IN
     /\ \A text \in Texts :
          handleSubmit(setInput(awaiting, text)).chatHistories = chatHistories
     /\ ~submitButtonEnabled(awaiting)

\* Two sends went to the same bucket.
C3_Witness ==
  \E id \in DOMAIN chatHistories : Len(chatHistories[id]) = 4

\* Longest requirement list the reply generator is compared on.
MaxReqs == 2

\* The requirement lists of at most MaxReqs entries, up to identifiers and
\* descriptions.
ReqLists ==
  UNION {[1..n -> {[id |-> 0, type |-> ty, description |-> <<"a">>] :
                     ty \in RequirementTypes}] : n \in 0..MaxReqs}

CountType(reqs, ty) == Cardinality({i \in 1..Len(reqs) : reqs[i].type = ty})

\* The personas of the session: the scenario's stakeholders and the reviewer.
Personas ==
  {scenario.stakeholders[i] : i \in 1..Len(scenario.stakeholders)}
    \cup {seniorEngineer}

replyFor(persona, isEngineer, reqs) ==
  makeAssistantReply(
    [stakeholder |-> persona, scenarioTitle |-> scenario.title,
     scenarioDescription |-> scenario.fullDescription,
     isEngineer |-> isEngineer, requirements |-> reqs])

\* C4: for the requirement list of the state and every persona, the reply
\* generator returns: as reviewer on an empty list, the one fixed string
\* (no title, no count); as reviewer on a non-empty list, the summary
\* template carrying the scenario title, the number of requirements tagged
\* functional and the number tagged non-functional; otherwise the template
\* carrying the persona's name, role and the title.  On any two non-empty
\* lists the reviewer's replies differ in the two numbers at most.
C4_ReplyGenerator ==
  /\ \A persona \in Personas :
       LET asReviewer == replyFor(persona, TRUE, requirements)
           asStakeholder == replyFor(persona, FALSE, requirements)
       IN /\ requirements = <<>> =>
               /\ Len(asReviewer) = 1
               /\ asReviewer = replyFor(seniorEngineer, TRUE, <<>>)
          /\ requirements # <<>> =>
               /\ Len(asReviewer) = 7
               /\ asReviewer[2] = scenario.title
               /\ asReviewer[4] = ToString(CountType(requirements, "functional"))
               /\ asReviewer[6]
                    = ToString(CountType(requirements, "non-functional"))
          /\ Len(asStakeholder) = 7
          /\ asStakeholder[2] = persona.name
          /\ asStakeholder[4] = persona.role
          /\ asStakeholder[6] = scenario.title
  /\ requirements # <<>> =>
       \A other \in ReqLists \ {<<>>} :
         LET mine == replyFor(seniorEngineer, TRUE, requirements)
             theirs == replyFor(seniorEngineer, TRUE, other)
         IN /\ Len(theirs) = Len(mine)
            /\ \A i \in 1..Len(mine) \ {4, 6} : theirs[i] = mine[i]
            /\ theirs[4] = ToString(CountType(other, "functional"))
            /\ theirs[6] = ToString(CountType(other, "non-functional"))

\* The reviewer answered with a summary of one functional and one
\* non-functional requirement.
C4_Witness ==
  \E i \in 1..Len(reviewerBucket) :
    /\ reviewerBucket[i].role = "assistant"
    /\ Len(reviewerBucket[i].content) = 7
    /\ reviewerBucket[i].content[4] = "1"
    /\ reviewerBucket[i].content[6] = "1"

ClearedToast == ToastSuccess("Chat history and requirements cleared.")

\* C6: from every reachable state, clearSession leaves every chat bucket
\* and the requirement list empty in one step, and clearing the cleared
\* state again changes nothing.
C6_ClearSession ==
  LET once == handleDeleteHistory(Page)
      twice == handleDeleteHistory(once)
  IN /\ \A id \in PersonaIds \cup {""} : Bucket(once.chatHistories, id) = <<>>
     /\ DOMAIN once.chatHistories = {}
     /\ once.requirements = <<>>
     /\ twice = once

\* A session that held messages and a requirement has been cleared.
C6_Witness ==
  /\ toast = ClearedToast
  /\ uuid >= 3
  /\ chatHistories = EmptyHistories
  /\ requirements = <<>>

\* C7: messages and requirements are cleared only by a step taken while
\* the confirmation dialog is open, and that step closes the dialog; the
\* dialog is opened only by the Delete History request, which changes
\* nothing else; cancelling the dialog changes neither the chat buckets nor
\* the requirements.
LosesMessages ==
  \E id \in DOMAIN chatHistories :
    Len(Bucket(chatHistories', id)) < Len(chatHistories[id])

C7_ConfirmThenClear ==
  [][/\ (LosesMessages \/ (toast' = ClearedToast /\ toast # ClearedToast)) =>
          showDeleteDialog /\ ~showDeleteDialog'
     /\ ConfirmDelete => showDeleteDialog /\ ~showDeleteDialog'
     /\ (~showDeleteDialog /\ showDeleteDialog') =>
          /\ OpenDeleteDialog
          /\ UNCHANGED <<chatHistories, requirements>>
     /\ CancelDelete =>
          /\ ~showDeleteDialog'
          /\ UNCHANGED <<chatHistories, requirements>>]_vars

\* A confirmed clear of a session that held two exchanges closed the dialog.
C7_Witness ==
  /\ toast = ClearedToast
  /\ ~showDeleteDialog
  /\ uuid = 4
  /\ DOMAIN chatHistories = {}

\* C8: adding a requirement whose description trims to empty leaves the
\* list as it was; otherwise exactly one requirement, with the selected
\* type, the trimmed description and an identifier no listed requirement
\* has, is appended at the end; the identifiers in the list are pairwise
\* distinct in every reachable state.
DistinctRequirementIds ==
  \A i, j \in 1..Len(requirements) :
    requirements[i].id = requirements[j].id => i = j

C8_AddRequirement ==
  /\ DistinctRequirementIds
  /\ \A text \in Texts :
       LET after == handleAdd(setDescription(Page, text)).requirements
           n == Len(requirements)
       IN IF Trim(text) = <<>>
          THEN after = requirements
          ELSE /\ Len(after) = n + 1
               /\ SubSeq(after, 1, n) = requirements
               /\ after[n + 1].type = type
               /\ after[n + 1].description = Trim(text)
               /\ \A i \in 1..n : requirements[i].id # after[n + 1].id

\* Two requirements are listed, the first added one was deleted before the
\* last was added, and a blank description was refused afterwards.
C8_Witness ==
  /\ Len(requirements) = 2
  /\ requirements[1].id = 2
  /\ requirements[2].id = 3
  /\ description = <<" ">>

RemoveAt(seq, i) == SubSeq(seq, 1, i - 1) \o SubSeq(seq, i + 1, Len(seq))

C10_DeleteRequirement ==
  \A id \in 1..(MaxUuids + 1) :
    LET after == handleDeleteRequirement(Page, id)
        at == {i \in 1..Len(requirements) : requirements[i].id = id}
    IN /\ after.toast.kind # "error"
       /\ at = {} => after.requirements = requirements
       /\ \A i \in at : after.requirements = RemoveAt(requirements, i)

\* The second of three requirements was deleted.
C10_Witness ==
  /\ toast = ToastSuccess("Requirement removed.")
  /\ Len(requirements) = 2
  /\ requirements[1].id = 1
  /\ requirements[2].id = 3

\* The identifiers the active-stakeholder state is tried with: unset, every
\* identifier of the catalog, the reviewer's, and one of no persona at all.
CandidateIds == PersonaIds \cup {"", "temp-0", "unknown"}

\* C11: in every reachable state, with the active identifier replaced by
\* any identifier that is unset or is neither one of the scenario's
\* stakeholders nor the reviewer's, no persona resolves, and a send (of any
\* text, and through the review submission) returns the state it was given:
\* no bucket changes, the awaiting-reply flag stays unset and no
\* notification is raised.
C11_UnresolvablePersona ==
  \A id \in CandidateIds :
    LET s == setActiveStakeholderId(Page, id) IN
    IF id \in SidebarIds(Page)
    THEN activeStakeholder(s) # Null
    ELSE /\ activeStakeholder(s) = Null
         /\ currentMessages(s) = Bucket(chatHistories, id)
         /\ \A text \in Texts :
              LET after == handleSendMessage(s, text) IN
              /\ after = s
              /\ after.chatHistories = chatHistories
              /\ after.isLoading = FALSE
              /\ after.toast = toast
         /\ Len(requirements) > 0 =>
              handleSubmitForReview(s) = s

\* The session before any persona was chosen, with requirements gathered:
\* no persona resolves and a send returns the state unchanged.
C11_Witness ==
  /\ activeStakeholderId = ""
  /\ activeStakeholder(Page) = Null
  /\ Len(requirements) = 2
  /\ handleSendMessage(Page, <<"a">>) = Page

Last(seq) == seq[Len(seq)]

\* C12: in every reachable state of the page whose reply generation may
\* fail, while a persona resolves, a send whose reply generation fails
\* grows the active bucket by the user's message only (no message of role
\* "assistant" is added and every other bucket is as it was), raises the
\* error notification "Failed to generate response.", and leaves the
\* awaiting-reply flag unset, so that the next chat submit is accepted.
C12_ReplyFailure ==
  activeStakeholder(Page) # Null =>
    \A text \in Texts :
      LET id == activeStakeholderId
          before == Bucket(chatHistories, id)
          after == handleSendMessageThrown(Page, text)
          bucket == Bucket(after.chatHistories, id)
          again == handleSubmit(setInput(after, <<"a">>))
      IN /\ Len(bucket) = Len(before) + 1
         /\ SubSeq(bucket, 1, Len(before)) = before
         /\ Last(bucket).role = "user"
         /\ Last(bucket).content = text
         /\ CountRole(bucket, "assistant") = CountRole(before, "assistant")
         /\ \A k \in DOMAIN chatHistories \ {id} :
              after.chatHistories[k] = chatHistories[k]
         /\ DOMAIN after.chatHistories = DOMAIN chatHistories \cup {id}
         /\ after.toast = ToastError("Failed to generate response.")
         /\ after.isLoading = FALSE
         /\ Len(Bucket(again.chatHistories, id)) = Len(bucket) + 2

\* A send failed and left the user's message alone in the bucket; the
\* next send went through and was answered.
C12_Witness ==
  /\ toast = ToastError("Failed to generate response.")
  /\ ~isLoading
  /\ Len(currentMessages(Page)) = 3
  /\ currentMessages(Page)[1].role = "user"
  /\ currentMessages(Page)[2].role = "user"
  /\ currentMessages(Page)[3].role = "assistant"

IsPrefix(a, b) == Len(a) <= Len(b) /\ SubSeq(b, 1, Len(a)) = a

\* C13: every step of the page other than the confirmed clearing of the
\* session keeps every bucket and leaves its messages, in their order and
\* unmodified, at the front of the bucket it has afterwards.
C13_AppendOnly ==
  [][ConfirmDelete \/
       \A k \in DOMAIN chatHistories :
         /\ k \in DOMAIN chatHistories'
         /\ IsPrefix(chatHistories[k], chatHistories'[k])]_vars

\* Two sends went into the same bucket, the second behind the first.
C13_Witness ==
  /\ Len(currentMessages(Page)) = 4
  /\ currentMessages(Page)[2].id < currentMessages(Page)[3].id

\* The (bucket, position) pairs of the messages of a page.
MessageSlots(s) ==
  {<<k, i>> : k \in DOMAIN s.chatHistories, i \in 1..MaxUuids + 2} \cap
  UNION {{<<k, i>> : i \in 1..Len(s.chatHistories[k])} :
           k \in DOMAIN s.chatHistories}

DistinctMessageIds(s) ==
  \A p, q \in MessageSlots(s) :
    p # q => s.chatHistories[p[1]][p[2]].id # s.chatHistories[q[1]][q[2]].id

\* C14: in every reachable state the identifiers of the messages are
\* pairwise distinct across all buckets, and a send started while a persona
\* resolves puts its user message and its reply, in this order and with two
\* further distinct identifiers, at the end of the bucket of the stakeholder
\* active at its start and changes no other bucket.
C14_OneBucketPerMessage ==
  /\ DistinctMessageIds(Page)
  /\ activeStakeholder(Page) # Null =>
       \A text \in Texts :
         LET id == activeStakeholderId
             before == Bucket(chatHistories, id)
             after == handleSendMessage(Page, text)
             bucket == Bucket(after.chatHistories, id)
         IN /\ Len(bucket) = Len(before) + 2
            /\ IsPrefix(before, bucket)
            /\ bucket[Len(before) + 1].role = "user"
            /\ bucket[Len(before) + 2].role = "assistant"
            /\ DOMAIN after.chatHistories = DOMAIN chatHistories \cup {id}
            /\ \A k \in DOMAIN chatHistories \ {id} :
                 after.chatHistories[k] = chatHistories[k]
            /\ DistinctMessageIds(after)

\* Two buckets hold a send each.
C14_Witness ==
  /\ Cardinality(DOMAIN chatHistories) = 2
  /\ \A k \in DOMAIN chatHistories : Len(chatHistories[k]) = 2
  /\ Cardinality(MessageSlots(Page)) = 4

\* The two characters are the same letter in either case, or the same
\* character.
SameIgnoringCase(c, d) ==
  \/ c = d
  \/ c \in DOMAIN LowerOf /\ LowerOf[c] = d
  \/ d \in DOMAIN LowerOf /\ LowerOf[d] = c

\* str holds, at some position, the characters of q up to letter case.
ContainsIgnoringCase(str, q) ==
  \E i \in 1..(Len(str) - Len(q) + 1) :
    \A k \in 1..Len(q) :
      SameIgnoringCase(SubSeq(str, i + k - 1, i + k - 1), SubSeq(q, k, k))

\* The positions in the catalog of the scenarios a query asks for.
Wanted(query) ==
  {i \in 1..Len(allScenarios) :
     \/ ContainsIgnoringCase(allScenarios[i].title, trim(query))
     \/ ContainsIgnoringCase(allScenarios[i].shortDescription, trim(query))
     \/ ContainsIgnoringCase(allScenarios[i].category, trim(query))}

PositionOf(s) == CHOOSE i \in 1..Len(allScenarios) : allScenarios[i] = s

\* C16: for every query of the search box, and for the category of every
\* scenario in lower and in mixed case, the grid shows exactly the
\* scenarios whose title, short description or category contains the
\* trimmed query up to letter case, in catalog order; an empty or
\* whitespace-only query shows the whole catalog, and a query that is a
\* scenario's category shows that scenario.
C16_ScenarioSearch ==
  /\ \A query \in {searchQuery} \cup Queries :
       LET result == filteredScenarios(query) IN
       /\ {PositionOf(result[n]) : n \in 1..Len(result)} = Wanted(query)
       /\ \A n \in 1..Len(result) : result[n] \in
            {allScenarios[i] : i \in 1..Len(allScenarios)}
       /\ \A m, n \in 1..Len(result) :
            m < n => PositionOf(result[m]) < PositionOf(result[n])
       /\ trim(query) = "" => result = allScenarios
       /\ hasResults(query) <=> Wanted(query) # {}
  /\ \A i \in 1..Len(allScenarios) :
       \A query \in {allScenarios[i].category,
                     toLowerCase(allScenarios[i].category),
                     " " \o allScenarios[i].category \o " "} :
         \E n \in 1..Len(filteredScenarios(query)) :
           filteredScenarios(query)[n] = allScenarios[i]

\* A category was typed in mixed case with blanks around it, the grid
\* showed the scenario of that category alone, and its card was clicked.
C16_Witness ==
  /\ searchQuery = " hEaLtH "
  /\ filteredScenarios(searchQuery) = <<defaultScenarios[3]>>
  /\ selectedScenario = defaultScenarios[3]
  /\ popupOpen

\* The scenarios that exist: the catalog, what was imported, and what an
\* import of the text in the box would hand over.
KnownScenarios ==
  {allScenarios[i] : i \in 1..Len(allScenarios)}
    \cup {imported[i] : i \in 1..Len(imported)}
    \cup {handleImport(Dialog).imported[i] :
            i \in 1..Len(handleImport(Dialog).imported)}

StakeholderIdsOf(s) == {s.stakeholders[i].id : i \in 1..Len(s.stakeholders)}

\* The interview page on a scenario, with an active identifier.
PageOn(s, id) ==
  [Page EXCEPT
     !.scenario = [id |-> "imported", title |-> s.title,
                   shortDescription |-> s.shortDescription,
                   fullDescription |-> s.fullDescription,
                   category |-> s.category, stakeholders |-> s.stakeholders],
     !.activeStakeholderId = id]

Outcome == handleImport(Dialog)
Handed == SubSeq(Outcome.imported, Len(imported) + 1, Len(Outcome.imported))

\* The document in the box, when the text is JSON.
Document == JSONparse(importJson).value

LacksStakeholders(value) ==
  /\ value.type = "object"
  /\ \/ ~hasKey(value, "stakeholders")
     \/ get(value, "stakeholders") = JArray(<<>>)

\* C17: in every reachable state, an import of a JSON object without
\* `stakeholders` or with an empty list raises an error notification that
\* is not the one for invalid JSON and hands nothing to the callback; an
\* import of the document with the required members only and one
\* stakeholder hands over exactly one scenario, with one stakeholder, the
\* category "Custom" and the title as short description, and the full
\* document keeps its own category and short description.
C17_ImportValidation ==
  /\ (JSONparse(importJson).ok /\ LacksStakeholders(Document)) =>
       /\ Handed = <<>>
       /\ Outcome.toast.kind = "error"
       /\ Outcome.toast # ToastError("Invalid JSON format")
       /\ Outcome.toast.message \in
            {"Required", "Array must contain at least 1 element(s)"}
  /\ importJson = JSONstringify(MinimalDocument) =>
       /\ Len(Handed) = 1
       /\ Len(Handed[1].stakeholders) = 1
       /\ Handed[1].stakeholders[1].name = "Ann"
       /\ Handed[1].category = "Custom"
       /\ Handed[1].title = "Shop"
       /\ Handed[1].shortDescription = Handed[1].title
       /\ Handed[1].fullDescription = "An online shop"
  /\ importJson = JSONstringify(FullDocument) =>
       /\ Len(Handed) = 1
       /\ Len(Handed[1].stakeholders) = 1
       /\ Handed[1].category = "Retail"
       /\ Handed[1].shortDescription = "A shop"
  /\ \A i \in 1..Len(imported) : Len(imported[i].stakeholders) >= 1

\* The minimal document was imported; then an import of the document
\* without stakeholders was refused.
C17_Witness ==
  /\ Len(imported) = 1
  /\ imported[1].category = "Custom"
  /\ imported[1].shortDescription = imported[1].title
  /\ Len(imported[1].stakeholders) = 1
  /\ showImportDialog
  /\ importJson = JSONstringify(NoStakeholdersDocument)
  /\ toast = ToastError("Required")

\* A failed import leaves the dialog open with its text, hands nothing to
\* the callback and ends with the submitting flag unset; invalid JSON and
\* a schema violation raise different error notifications.
FailedImportKeepsState ==
  (Trim(importJson) # <<>> /\ Handed = <<>>) =>
    /\ Outcome.importJson = importJson
    /\ Outcome.showImportDialog = showImportDialog
    /\ Outcome.imported = imported
    /\ Outcome.isSubmitting = FALSE
    /\ Outcome.toast.kind = "error"
    /\ JSONparse(importJson).ok <=>
         Outcome.toast # ToastError("Invalid JSON format")

ReportOf(document) ==
  handleImport([Dialog EXCEPT !.importJson = JSONstringify(document)]).toast

\* C18: a failed import keeps the state, and the report of a schema
\* violation tells which validation failed: documents that violate the
\* schema at different members (the title, the stakeholders) get
\* different reports.
C18_ReportTellsValidation ==
  /\ FailedImportKeepsState
  /\ ReportOf(NoTitleDocument) # ReportOf(NoStakeholdersDocument)

\* The (name, role, description) triples of a scenario, in order.
Triples(s) ==
  [i \in 1..Len(s.stakeholders) |->
     <<s.stakeholders[i].name, s.stakeholders[i].role,
       s.stakeholders[i].description>>]

\* C19: for every scenario of the catalog, in every reachable state in
\* which the box holds the object the export writes for it, the text
\* parses to that object and the import hands over exactly one scenario,
\* with the title, short description, full description, category and
\* ordered stakeholder triples of the original.
C19_ExportRoundTrip ==
  \A i \in 1..Len(allScenarios) :
    importJson = ExportedText[i] =>
      /\ JSONparse(importJson).ok
      /\ Document = exportObject(allScenarios[i])
      /\ importIssues(Document) = <<>>
      /\ Len(Handed) = 1
      /\ Handed[1].title = allScenarios[i].title
      /\ Handed[1].shortDescription = allScenarios[i].shortDescription
      /\ Handed[1].fullDescription = allScenarios[i].fullDescription
      /\ Handed[1].category = allScenarios[i].category
      /\ Triples(Handed[1]) = Triples(allScenarios[i])
      /\ Outcome.toast = ToastSuccess("Scenario imported successfully!")

\* The exported object of the last catalog scenario was imported.
C19_Witness ==
  /\ Len(imported) = 1
  /\ imported[1].title = allScenarios[Len(allScenarios)].title
  /\ imported[1].category = allScenarios[Len(allScenarios)].category
  /\ Triples(imported[1]) = Triples(allScenarios[Len(allScenarios)])
  /\ importJson = <<>>
  /\ ~showImportDialog

\* C20: in every reachable state in which the box holds a document in the
\* format the dialog's help shows, an array of scenario objects, or the
\* file written by "Export All", the import succeeds and hands at least
\* one scenario to the callback.
C20_DocumentedFormatImports ==
  importJson \in {JSONstringify(DocumentedFormat), handleExportAll} =>
    /\ Len(Handed) >= 1
    /\ Outcome.toast = ToastSuccess("Scenario imported successfully!")
    /\ ~Outcome.showImportDialog

\* The positions of the lines of a file that are equal to a given line.
LinesEqual(content, line) == {n \in 1..Len(content) : content[n] = line}

\* The positions of the numbered entries of a file.
EntryLinesOf(content) ==
  {n \in 1..Len(content) : Len(content[n]) >= 2 /\ content[n][2] = ". "}

\* The group of a type starts with its header and lists the requirements of
\* that type, numbered from 1 in the order of the list, on the lines after
\* the header's rule; without requirements of the type the header is absent.
GroupListed(content, header, reqs) ==
  IF reqs = <<>> THEN LinesEqual(content, <<header>>) = {}
  ELSE /\ Cardinality(LinesEqual(content, <<header>>)) = 1
       /\ LET h == CHOOSE n \in LinesEqual(content, <<header>>) : TRUE IN
          /\ h + 1 + Len(reqs) <= Len(content)
          /\ \A k \in 1..Len(reqs) :
               content[h + 1 + k] = <<ToString(k), ". ">> \o reqs[k].description
          /\ h + 2 + Len(reqs) <= Len(content) =>
               h + 2 + Len(reqs) \notin EntryLinesOf(content)

\* The requirements of a type, in the order of the list, written without
\* the filter of the panel.
RECURSIVE OfType(_, _)
OfType(reqs, ty) ==
  IF reqs = <<>> THEN <<>>
  ELSE (IF Head(reqs).type = ty THEN <<Head(reqs)>> ELSE <<>>)
         \o OfType(Tail(reqs), ty)

\* C21: in every reachable state of the panel, the export of an empty list
\* downloads nothing and raises the error "No requirements to export"; the
\* export of a non-empty list downloads a file in which each type with
\* requirements has its header once, followed by its requirements numbered
\* 1..n in the order they were added, a type without requirements has no
\* header, the functional group precedes the non-functional one, and there
\* are as many entries as requirements.
C21_RequirementExport ==
  LET out == handleExportRequirements(Page)
      content == out.content
      fn == OfType(requirements, "functional")
      nfr == OfType(requirements, "non-functional")
  IN IF requirements = <<>>
     THEN /\ ~out.downloaded
          /\ out.page.toast = ToastError("No requirements to export")
          /\ out.page.requirements = requirements
     ELSE /\ out.downloaded
          /\ out.page = [Page EXCEPT !.toast = ToastSuccess("Requirements exported!")]
          /\ GroupListed(content, "FUNCTIONAL REQUIREMENTS", fn)
          /\ GroupListed(content, "NON-FUNCTIONAL REQUIREMENTS", nfr)
          /\ Cardinality(EntryLinesOf(content)) = Len(requirements)
          /\ Len(fn) + Len(nfr) = Len(requirements)
          /\ \A m \in LinesEqual(content, <<"FUNCTIONAL REQUIREMENTS">>),
                n \in LinesEqual(content, <<"NON-FUNCTIONAL REQUIREMENTS">>) :
               m < n

\* A list with two functional requirements around a non-functional one was
\* exported.
C21_Witness ==
  /\ Len(requirements) = 3
  /\ requirements[1].type = "functional"
  /\ requirements[2].type = "non-functional"
  /\ requirements[3].type = "functional"
  /\ requirements[1].description # requirements[3].description
  /\ toast = ToastSuccess("Requirements exported!")

\* The toasts a reducer action may carry, whatever the list holds.
AnyToasts == [id : ToastIds, title : Titles, open : BOOLEAN]

\* The patches of an UPDATE_TOAST: any of the fields may be left out.
Patches ==
  AnyToasts \cup [id : ToastIds, title : Titles] \cup [id : ToastIds]
    \cup [id : ToastIds, open : BOOLEAN] \cup [title : Titles]
    \cup [title : Titles, open : BOOLEAN]

\* The actions the reducer accepts.
ReducerActions ==
  {AddToast(t) : t \in AnyToasts}
    \cup {UpdateToast(patch) : patch \in Patches}
    \cup {DismissToast(i) : i \in ToastIds \cup {Undefined}}
    \cup {RemoveToast(i) : i \in ToastIds \cup {Undefined}}

\* C22: the toast list never holds more than TOAST_LIMIT = 1 toast, no
\* reducer action (ADD_TOAST, UPDATE_TOAST, DISMISS_TOAST, REMOVE_TOAST)
\* makes it longer than that, and an ADD_TOAST leaves exactly the toast it
\* carries, the previous one being dropped.
C22_ToastLimit ==
  /\ Len(memoryState.toasts) <= TOAST_LIMIT
  /\ \A a \in ReducerActions :
       Len(reducer(memoryState, a).toasts) <= TOAST_LIMIT
  /\ \A t \in AnyToasts :
       reducer(memoryState, AddToast(t)).toasts = <<t>>

\* A second toast replaced the first one, which is gone from the list.
C22_Witness ==
  /\ count = 2
  /\ Len(memoryState.toasts) = 1
  /\ memoryState.toasts[1].id = "2"
  /\ memoryState.toasts[1].open

\* The handler left everything but the notification as it was.
OnlyNotifies(result, kind) ==
  /\ result.toast.kind = kind
  /\ [result EXCEPT !.toast = toast, !.imported = imported] = Dialog

\* C23: the custom scenario list is empty and the scenarios offered for
\* browsing are the default catalog in its order; the create, import, edit
\* and delete handlers of the Index page only show a notification, and no
\* submit, import or delete of the dialogs leaves a custom scenario.
C23_CatalogNeverMutated ==
  /\ customScenarios = <<>>
  /\ allScenarios = defaultScenarios
  /\ filteredScenarios("") = defaultScenarios
  /\ \A s \in KnownScenarios :
       /\ OnlyNotifies(handleAddScenario(Dialog, s), "info")
       /\ OnlyNotifies(handleUpdateScenario(Dialog, s.id, s), "info")
       /\ OnlyNotifies(handleDeleteScenario(Dialog, s.id), "info")
       /\ OnlyNotifies(handleDelete(Dialog, s.id, TRUE), "success")
       /\ handleDelete(Dialog, s.id, FALSE) = Dialog
       /\ \A form \in Forms :
            /\ handleSubmitScenario(Dialog, form, s).customScenarios = <<>>
            /\ handleSubmitScenario(Dialog, form, NullScenario).customScenarios
                 = <<>>
  /\ handleImport(Dialog).customScenarios = <<>>

\* A scenario was created through the create dialog, which closed again,
\* and the custom list is as empty as before.
C23_Witness ==
  /\ Len(imported) = 1
  /\ toast = ToastSuccess("Scenario created successfully!")
  /\ manageOpen /\ ~showCreateDialog
  /\ customScenarios = <<>>

\* What the timer of a login or sign-up submit does when it fires.
LoginCompletes(a, t) ==
  LET done == authTimeout(a, t) IN
  /\ done.localStorage.regai_logged_in = "true"
  /\ done.localStorage.regai_email = t.email
  /\ done.location = "/" /\ done.isLoggedIn
  /\ done.timers = a.timers \ {t}

\* C24: the dashboard is shown only while the stored flag is "true" and a
\* visit without the flag ends on the auth view; a login or sign-up submit
\* leaves the store alone until its timer fires, which stores the flag and
\* the email and shows the dashboard; sign-out removes the flag and shows
\* the auth view, and a dashboard visit after it ends on the auth view.
C24_LoginFlagGuardsDashboard ==
  /\ location = "/" => isLoggedIn /\ localStorage.regai_logged_in = "true"
  /\ localStorage.regai_logged_in # "true" =>
       navigate([App EXCEPT !.timers = {}], "/", NullScenario).location
         = "/auth"
  /\ (location = "/auth" /\ ~authLoading /\ email # "") =>
       LET sent == handleSubmitAuth(App) IN
       /\ sent.localStorage = localStorage
       /\ sent.location = "/auth" /\ sent.authLoading
       /\ sent.timers = {[email |-> email, isLogin |-> isLogin]}
       /\ \A t \in sent.timers : LoginCompletes(sent, t)
  /\ \A t \in timers : LoginCompletes(App, t)
  /\ (location = "/" /\ isLoggedIn) =>
       LET out == handleLogout(App) IN
       /\ out.localStorage.regai_logged_in = Undefined
       /\ out.localStorage.regai_email = localStorage.regai_email
       /\ out.location = "/auth"
       /\ navigate([out EXCEPT !.timers = {}], "/", NullScenario).location
            = "/auth"

\* Signed out after a login through the auth view: the email the submit
\* stored is still there, the flag is gone.
C24_Witness ==
  /\ location = "/auth"
  /\ toast = ToastSuccess("Signed out successfully")
  /\ localStorage.regai_logged_in = Undefined
  /\ localStorage.regai_email \in Emails

\* An interview page right after it mounted on a scenario.
StartsFresh(p, s) ==
  /\ p.scenario = s
  /\ p.activeStakeholderId = ""
  /\ p.chatHistories = EmptyHistories
  /\ p.requirements = <<>>
  /\ ~p.isLoading

\* What holds of the entry to the interview in every state.
InterviewEntry ==
  /\ location = "/interview" => scenario # NullScenario
  /\ handleStartInterview([App EXCEPT !.selectedScenario = NullScenario])
       = [App EXCEPT !.selectedScenario = NullScenario]
  /\ \A i \in 1..Len(allScenarios) :
       LET started ==
             handleStartInterview(
               [App EXCEPT !.selectedScenario = allScenarios[i]])
       IN /\ started.location = "/interview"
          /\ StartsFresh(started.page, allScenarios[i])
  /\ LET refused == navigate(App, "/interview", NullScenario)
     IN /\ refused.location \in {"/", "/auth"}
        /\ refused.page.scenario = NullScenario

\* C25: the interview view is shown only on a scenario; Start Interview does
\* nothing without a selected scenario and otherwise shows the interview on
\* exactly the selected one; the interview route without a scenario shows
\* the scenario browser (or the auth view) instead; and every step that
\* enters the interview view leaves no chat buckets, no requirements, no
\* active stakeholder and the awaiting-reply flag unset.
C25_InterviewEntry ==
  /\ []InterviewEntry
  /\ [][(location # "/interview" /\ location' = "/interview") =>
          /\ scenario' = selectedScenario
          /\ scenario' # NullScenario
          /\ activeStakeholderId' = ""
          /\ chatHistories' = EmptyHistories
          /\ requirements' = <<>>
          /\ ~isLoading']_vars

\* An interview view that has just begun although identifiers were handed
\* out before: an earlier interview view had messages or requirements.
C25_Witness ==
  /\ location = "/interview"
  /\ uuid > 0
  /\ scenario \in SessionScenarios
  /\ StartsFresh(Page, scenario)

\* C26: with the awaiting-reply flag set the chat box, the send button and
\* the Submit for Review button are disabled and a chat submit leaves the
\* page as it is; a send ends with the flag reset, whether the reply is
\* generated or its generation fails, and no state the page is left in has
\* the flag set.
C26_AwaitingBlocksAndResets ==
  /\ ~isLoading
  /\ LET awaiting == [Page EXCEPT !.isLoading = TRUE] IN
     /\ inputDisabled(awaiting)
     /\ ~submitButtonEnabled(awaiting)
     /\ \A text \in Texts :
          /\ sendButtonDisabled(setInput(awaiting, text))
          /\ handleSubmit(setInput(awaiting, text)) = setInput(awaiting, text)
          /\ activeStakeholder(Page) # Null =>
               /\ ~handleSendMessage(awaiting, Trim(text)).isLoading
               /\ ~handleSendMessageThrown(awaiting, Trim(text)).isLoading
  /\ \A text \in Texts :
       /\ ~handleSubmit(setInput(Page, text)).isLoading
       /\ ~handleSubmitThrown(setInput(Page, text)).isLoading
  /\ ~handleSubmitForReview(Page).isLoading

\* The reviewer answered a send and requirements are listed: only the flag
\* would keep the Submit for Review button disabled.
C26_Witness ==
  /\ isEngineerChat(Page)
  /\ Len(reviewerBucket) = 2
  /\ Len(requirements) = 1
  /\ submitButtonEnabled(Page)

\* The reply a send appended: the last message of the active bucket.
ReplyOf(after) == Last(currentMessages(after)).content

\* C27: a send in the current state is answered from the current state: the
\* reviewer's reply carries the numbers of functional and of non-functional
\* requirements of the list as it is now, which add up to its length, and
\* a stakeholder's reply carries the name and role of the stakeholder that
\* is active now.
C27_ReplyFromCurrentState ==
  /\ CountType(requirements, "functional")
       + CountType(requirements, "non-functional") = Len(requirements)
  /\ activeStakeholder(Page) # Null =>
       \A sent \in {handleSendMessage(Page, <<"a">>),
                    handleSubmit(setInput(Page, <<"a">>))} :
         /\ Last(currentMessages(sent)).role = "assistant"
         /\ isEngineerChat(Page) /\ requirements # <<>> =>
              /\ Len(ReplyOf(sent)) = 7
              /\ ReplyOf(sent)[4]
                   = ToString(CountType(requirements, "functional"))
              /\ ReplyOf(sent)[6]
                   = ToString(CountType(requirements, "non-functional"))
         /\ isEngineerChat(Page) /\ requirements = <<>> =>
              Len(ReplyOf(sent)) = 1
         /\ ~isEngineerChat(Page) =>
              /\ Len(ReplyOf(sent)) = 7
              /\ ReplyOf(sent)[2] = activeStakeholder(Page).name
              /\ ReplyOf(sent)[4] = activeStakeholder(Page).role
  /\ submitButtonEnabled(Page) =>
       LET reviewed == handleSubmitForReview(Page) IN
       /\ Len(ReplyOf(reviewed)) = 7
       /\ ReplyOf(reviewed)[4]
            = ToString(CountType(requirements, "functional"))
       /\ ReplyOf(reviewed)[6]
            = ToString(CountType(requirements, "non-functional"))

\* The reviewer is active and has answered on one requirement; since then
\* a second requirement of the other type was added.
C27_Witness ==
  /\ isEngineerChat(Page)
  /\ Len(reviewerBucket) = 2
  /\ Len(reviewerBucket[2].content) = 7
  /\ reviewerBucket[2].content[4] = "1"
  /\ reviewerBucket[2].content[6] = "0"
  /\ Len(requirements) = 2
  /\ CountType(requirements, "non-functional") = 1

\* Every bucket but that of the identifier is the same in both states.
OtherBucketsKept(after, id) ==
  \A k \in (DOMAIN after.chatHistories \cup DOMAIN chatHistories) \ {id} :
    Bucket(after.chatHistories, k) = Bucket(chatHistories, k)

\* C28: a send (from the chat box or as a review request) changes the
\* bucket of the active stakeholder only and keeps the requirement list and
\* the active identifier; adding and deleting a requirement keep the chat
\* histories and the active identifier; selecting a stakeholder keeps the
\* chat histories and the requirement list, so that selecting back shows
\* the same messages; clearing the session keeps the active identifier.
C28_FrameConditions ==
  /\ \A sent \in {handleSubmit(setInput(Page, text)) : text \in Texts}
                   \cup {handleSubmitForReview(Page)} :
       /\ OtherBucketsKept(sent, activeStakeholderId)
       /\ sent.requirements = requirements
       /\ sent.activeStakeholderId = activeStakeholderId
  /\ \A text \in Texts, v \in SelectItems :
       LET added == handleAdd(setDescription(setType(Page, v), text)) IN
       /\ added.chatHistories = chatHistories
       /\ added.activeStakeholderId = activeStakeholderId
  /\ \A i \in 1..Len(requirements) :
       LET deleted == handleDeleteRequirement(Page, requirements[i].id) IN
       /\ deleted.chatHistories = chatHistories
       /\ deleted.activeStakeholderId = activeStakeholderId
  /\ \A id \in SidebarIds(Page) :
       LET selected == setActiveStakeholderId(Page, id) IN
       /\ selected.chatHistories = chatHistories
       /\ selected.requirements = requirements
       /\ currentMessages(
            setActiveStakeholderId(selected, activeStakeholderId))
            = currentMessages(Page)
  /\ handleDeleteHistory(Page).activeStakeholderId = activeStakeholderId

\* A persona has answered, a requirement is listed and another persona
\* has been selected since.
C28_Witness ==
  /\ \E k \in DOMAIN chatHistories :
       /\ k # activeStakeholderId
       /\ Len(chatHistories[k]) >= 2
  /\ activeStakeholder(Page) # Null
  /\ currentMessages(Page) = <<>>
  /\ Len(requirements) >= 1

\* A message that asks for a review.
IsReviewRequest(m) ==
  /\ m.role = "user"
  /\ Head(m.content)
       = "Please review the following requirements I've gathered:\n\n"

\* C29: the Submit for Review button is enabled only while the reviewer is
\* the active stakeholder, a review request goes to the reviewer's bucket,
\* and no bucket of a scenario stakeholder holds a review request.
C29_ReviewGoesToReviewer ==
  /\ submitButtonEnabled(Page) =>
       /\ isEngineerChat(Page)
       /\ IsReviewRequest(
            Bucket(handleSubmitForReview(Page).chatHistories,
                   seniorEngineer.id)[Len(reviewerBucket) + 1])
       /\ OtherBucketsKept(handleSubmitForReview(Page), seniorEngineer.id)
  /\ \A k \in DOMAIN chatHistories \ {seniorEngineer.id} :
       \A i \in 1..Len(chatHistories[k]) :
         ~IsReviewRequest(chatHistories[k][i])

\* A review was requested and answered, and a scenario stakeholder was
\* selected after it.
C29_Witness ==
  /\ Len(reviewerBucket) = 2
  /\ IsReviewRequest(reviewerBucket[1])
  /\ ~isEngineerChat(Page)
  /\ activeStakeholder(Page) # Null

====
